---- MODULE Spec2Model ----
(***************************************************************************)
(* BenchSim: project discovery, compile-plan construction and the          *)
(* compile / simulate / view pipeline of SimulationManager.                *)
(*                                                                         *)
(* Paths are sequences of names from the root: <<"p", "top.v">> is         *)
(* "/p/top.v".  The empty sequence stands for Python's None and for the    *)
(* empty string, the two falsy path values the code tests with `not x`.    *)
(* Strings are compared the way Python compares them, code point by code   *)
(* point, through the table NameChars.                                     *)
(***************************************************************************)
EXTENDS Integers, Sequences, FiniteSets, TLC

VARIABLES
    dirs,       \* directories that exist
    files,      \* regular files that exist
    links,      \* symbolic links that exist (each points at LinkTarget[l])
    contents,   \* what the files the editor saves hold: path -> content
    config,     \* the settings store read by SettingsManager.get_config
    call,       \* the last call made to the plan builder / discovery and its result
    vcds,       \* the waveform dumps that exist: path -> modification time
    clock,      \* the file system's clock
    gtkw,       \* the viewer configuration files: path -> lines (NoFile: none)
    gtkwave_thread, \* SimulationManager.gtkwave_thread: NoThread or a ProcessRunner
    threads,    \* every ProcessRunner: the phase of its thread and its subprocess
    pc,         \* where the UI thread is
    run,        \* the locals and the history of the current (or last) run_simulation
    closing,    \* the messages of the close_gtkwave call in progress
    nruns,      \* how many times run_simulation was called
    ret         \* what the last finished orchestrator call returned

fsVars == <<dirs, files, links, contents>>
planVars == <<dirs, files, links, contents, config, call>>
viewerVars == <<gtkwave_thread, threads>>
runVars == <<vcds, clock, gtkw, gtkwave_thread, threads, pc, run, closing, nruns, ret>>
vars == <<dirs, files, links, contents, config, call,
          vcds, clock, gtkw, gtkwave_thread, threads, pc, run, closing, nruns, ret>>

----------------------------------------------------------------------------
(* Bounds of the model *)

\* at most this many project entries (files and links) exist under the folder
MaxFiles == 3

\* run_simulation is called at most this many times
MaxRuns == 2

\* modification times of dump files are 0..MaxMtime
MaxMtime == 2

\* a dump file declares at most this many signals
MaxSignals == 2

----------------------------------------------------------------------------
(* Names and strings *)

NoPath == <<>>

ICE_BUILD_DIR == "ice-build"

\* the code points of every name of the universe
NameChars ==
    "p" :> <<112>> @@
    "nx" :> <<110, 120>> @@
    "bin" :> <<98, 105, 110>> @@
    "ice-build" :> <<105, 99, 101, 45, 98, 117, 105, 108, 100>> @@
    "sub" :> <<115, 117, 98>> @@
    "a" :> <<97>> @@
    "b" :> <<98>> @@
    "main_tb.v" :> <<109, 97, 105, 110, 95, 116, 98, 46, 118>> @@
    "a_tb.v" :> <<97, 95, 116, 98, 46, 118>> @@
    "top.v" :> <<116, 111, 112, 46, 118>> @@
    "main.v" :> <<109, 97, 105, 110, 46, 118>> @@
    "x.v" :> <<120, 46, 118>> @@
    "x_tb.v" :> <<120, 95, 116, 98, 46, 118>> @@
    "y.v" :> <<121, 46, 118>> @@
    "z.v" :> <<122, 46, 118>> @@
    "l_tb.v" :> <<108, 95, 116, 98, 46, 118>> @@
    "l.v" :> <<108, 46, 118>> @@
    "simulation.vcd" :> <<115, 105, 109, 117, 108, 97, 116, 105, 111, 110, 46, 118, 99, 100>> @@
    "old.vcd" :> <<111, 108, 100, 46, 118, 99, 100>> @@
    "wave.vcd" :> <<119, 97, 118, 101, 46, 118, 99, 100>> @@
    "simulation.gtkw" :> <<115, 105, 109, 117, 108, 97, 116, 105, 111, 110, 46, 103, 116, 107, 119>> @@
    "simulation.out" :> <<115, 105, 109, 117, 108, 97, 116, 105, 111, 110, 46, 111, 117, 116>> @@
    "iverilog" :> <<105, 118, 101, 114, 105, 108, 111, 103>> @@
    "gtkwave" :> <<103, 116, 107, 119, 97, 118, 101>> @@
    "vvp" :> <<118, 118, 112>>

\* "_tb.v", ".v" and ".vcd"
TB_SUFFIX == <<95, 116, 98, 46, 118>>
V_SUFFIX == <<46, 118>>
VCD_SUFFIX == <<46, 118, 99, 100>>

\* str.endswith
EndsWith(s, suffix) ==
    /\ Len(s) >= Len(suffix)
    /\ \A i \in 1..Len(suffix) : s[Len(s) - Len(suffix) + i] = suffix[i]

\* str.startswith
StartsWith(s, prefix) ==
    /\ Len(s) >= Len(prefix)
    /\ \A i \in 1..Len(prefix) : s[i] = prefix[i]

\* `sub in s`
Contains(s, sub) ==
    \E i \in 0..(Len(s) - Len(sub)) : \A j \in 1..Len(sub) : s[i + j] = sub[j]

\* Python's < on strings
StrLess(s, t) ==
    \E i \in 1..(Len(s) + 1) :
        /\ \A j \in 1..(i - 1) : j <= Len(t) /\ s[j] = t[j]
        /\ \/ i = Len(s) + 1 /\ Len(t) > Len(s)
           \/ i <= Len(s) /\ i <= Len(t) /\ s[i] < t[i]

RECURSIVE PathStr(_)
\* str(path) of an absolute path: "/" before every name
PathStr(p) ==
    IF p = <<>> THEN <<>> ELSE <<47>> \o NameChars[p[1]] \o PathStr(Tail(p))


\* Path.name and Path.parent
PathName(p) == p[Len(p)]
PathParent(p) == SubSeq(p, 1, Len(p) - 1)

\* q lies under directory d (at any depth)
IsUnder(q, d) == Len(q) > Len(d) /\ SubSeq(q, 1, Len(d)) = d

----------------------------------------------------------------------------
(* The file system the program runs on *)

ProjectDir == <<"p">>
MissingDir == <<"nx">>
IverilogBin == <<"bin", "iverilog">>
GtkwaveBin == <<"bin", "gtkwave">>

FileSlots == {
    <<"p", "main_tb.v">>, <<"p", "a_tb.v">>, <<"p", "top.v">>,
    <<"p", "ice-build", "main.v">>,
    <<"p", "ice-build", "a", "x.v">>, <<"p", "ice-build", "a", "x_tb.v">>,
    <<"p", "ice-build", "b", "y.v">>, <<"p", "ice-build", "b", "main_tb.v">>,
    <<"p", "sub", "z.v">> }

LinkSlots == { <<"p", "l_tb.v">>, <<"p", "l.v">> }

LinkTarget ==
    <<"p", "l_tb.v">> :> <<"p", "top.v">> @@
    <<"p", "l.v">> :> <<"p", "ice-build", "a", "x_tb.v">>

DirSlots == {
    <<"p", "ice-build">>, <<"p", "ice-build", "a">>, <<"p", "ice-build", "b">>,
    <<"p", "sub">> }

FixedDirs == { ProjectDir, <<"bin">> }

\* sorted() orders paths by their strings
VcdSlots == { <<"p", "simulation.vcd">>, <<"p", "old.vcd">>, <<"p", "wave.vcd">> }
AllPaths == FileSlots \cup LinkSlots \cup DirSlots \cup FixedDirs \cup VcdSlots
                \cup { MissingDir, IverilogBin, GtkwaveBin }
PathKey == [ p \in AllPaths |-> PathStr(p) ]
PathLess(p, q) == StrLess(PathKey[p], PathKey[q])

\* mutant: the path is returned as it was spelled
resolve_unfollowed(p) == p

\* Path.resolve(): symbolic links replaced by what they point at
Resolve(p) == IF p \in links THEN LinkTarget[p] ELSE p

is_dir(p) == p \in dirs
is_file(p) == Resolve(p) \in files

Entries == dirs \cup files \cup links \cup DOMAIN vcds

\* Path.glob("*<suffix>") and Path.rglob("*<suffix>")
glob(d, suffix) ==
    { e \in Entries : PathParent(e) = d /\ EndsWith(NameChars[PathName(e)], suffix) }
rglob(d, suffix) ==
    { e \in Entries : IsUnder(e, d) /\ EndsWith(NameChars[PathName(e)], suffix) }

\* [d for d in p.iterdir() if d.is_dir()]
SubDirs(d) == { e \in dirs : e # <<>> /\ PathParent(e) = d }

WellFormedFs ==
    /\ FixedDirs \subseteq dirs
    /\ \A e \in (dirs \ FixedDirs) \cup files \cup links : PathParent(e) \in dirs
    /\ \A l \in links : LinkTarget[l] \in files

----------------------------------------------------------------------------
(* Sorting *)

RECURSIVE SortPaths(_)
\* sorted(S) for a set of paths
SortPaths(S) ==
    IF S = {} THEN <<>>
    ELSE LET m == CHOOSE x \in S : \A y \in S \ {x} : PathLess(x, y)
         IN  <<m>> \o SortPaths(S \ {m})

RECURSIVE SortResolved(_)
\* sorted(str(p.resolve()) for p in S): a list, so two spellings of one file
\* give two equal entries
SortResolved(S) ==
    IF S = {} THEN <<>>
    ELSE LET m == CHOOSE x \in S : \A y \in S : ~PathLess(Resolve(y), Resolve(x))
         IN  <<Resolve(m)>> \o SortResolved(S \ {m})

SeqRange(s) == { s[i] : i \in DOMAIN s }

RECURSIVE InsertSorted(_, _)
InsertSorted(x, s) ==
    IF s = <<>> THEN <<x>>
    ELSE IF PathLess(Head(s), x) THEN <<Head(s)>> \o InsertSorted(x, Tail(s))
    ELSE <<x>> \o s

RECURSIVE SortList(_)
SortList(s) == IF s = <<>> THEN <<>> ELSE InsertSorted(Head(s), SortList(Tail(s)))

\* mutant: sorted(...) of the list, without set(...)
sorted_paths_with_duplicates(paths) ==
    SortList([ i \in DOMAIN SelectSeq(paths, LAMBDA q : q # NoPath) |->
                 Resolve(SelectSeq(paths, LAMBDA q : q # NoPath)[i]) ])

\* sorted(set(str(Path(path).resolve()) for path in paths if path))
sorted_unique_paths(paths) ==
    SortPaths({ Resolve(paths[i]) : i \in { j \in DOMAIN paths : paths[j] # NoPath } })

----------------------------------------------------------------------------
(* Messages *)

\* No dictionary / no list / no plan: Python's None, which `x or {}` and
\* `x or []` turn into the empty container
NoData == <<>>
NoExtras == <<>>
NoPlan == <<>>

\* tr(key, lang, **kwargs): the text is determined by the key and the arguments
tr(key, kwargs) == [key |-> key, kwargs |-> kwargs]

\* messages.py lines 6-11: the values of MessageType
MessageTypes == { "error", "success", "log", "warning" }

create_message(message_type, text, extras, data) ==
    [type |-> message_type, message |-> text, extras |-> extras, data |-> data]

\* mutant: the popup is created as a warning
warning_popup(key) == create_message("warning", tr(key, <<>>), <<"popup">>, NoData)

ErrorPopup(key) == create_message("error", tr(key, <<>>), <<"popup">>, NoData)

----------------------------------------------------------------------------
(* Discovery *)

\* mutant: the first testbench in sorted order, whatever its name
preferred_tb_first_sorted(base, tb_files) ==
    IF tb_files # <<>> THEN tb_files[1] ELSE NoPath

\* lines 102-108: main_tb.v of the folder wins, then the first in sorted order
preferred_tb_of(base, tb_files) ==
    LET main_tb == Resolve(Append(base, "main_tb.v"))
    IN  IF main_tb \in SeqRange(tb_files) THEN main_tb
        ELSE IF tb_files # <<>> THEN tb_files[1]
        ELSE NoPath

\* mutant: "auto" is passed on as it came
effective_mode_unresolved(base, mode) == IF mode = "" THEN "auto" ELSE mode

\* lines 81-83: `mode or "auto"`, and "auto" resolved by looking for ice-build
effective_mode_of(base, mode) ==
    LET mode_or_auto == IF mode = "" THEN "auto" ELSE mode
    IN  IF mode_or_auto = "auto"
        THEN (IF is_dir(Append(base, ICE_BUILD_DIR)) THEN "icestudio" ELSE "generic")
        ELSE mode_or_auto

discover_project_files(folder, mode) ==
    LET base == folder
        ice_build == Append(base, ICE_BUILD_DIR)
        effective_mode == effective_mode_of(base, mode)
        tb_candidates ==
            IF effective_mode = "icestudio"
            THEN glob(base, TB_SUFFIX)
                 \cup (IF is_dir(ice_build) THEN rglob(ice_build, TB_SUFFIX) ELSE {})
            ELSE glob(base, TB_SUFFIX)
        source_candidates ==
            IF effective_mode = "icestudio"
            THEN glob(base, V_SUFFIX)
                 \cup (IF is_dir(ice_build) THEN rglob(ice_build, V_SUFFIX) ELSE {})
            ELSE glob(base, V_SUFFIX)
        tb_files == SortResolved(tb_candidates)
        source_files == SortResolved(source_candidates)
    IN  [ effective_mode |-> effective_mode,
          tb_files |-> sorted_unique_paths(tb_files),
          source_files |-> sorted_unique_paths(source_files),
          preferred_tb |-> preferred_tb_of(base, tb_files) ]

\* mutant: main.v under ice-build is looked for before the single subproject
guess_icestudio_scope_main_first(base, selected_tb) ==
    LET ice_build == Append(base, ICE_BUILD_DIR)
        tb_path == Resolve(selected_tb)
        project_dirs == SubDirs(ice_build)
    IN  IF ~is_dir(ice_build) THEN base
        ELSE IF selected_tb # NoPath /\ IsUnder(tb_path, ice_build) THEN PathParent(tb_path)
        ELSE IF is_file(Append(ice_build, "main.v")) THEN ice_build
        ELSE IF Cardinality(project_dirs) = 1 THEN CHOOSE d \in project_dirs : TRUE
        ELSE base

\* lines 52-75
guess_icestudio_scope(base, selected_tb) ==
    LET ice_build == Append(base, ICE_BUILD_DIR)
        tb_path == Resolve(selected_tb)
        project_dirs == SubDirs(ice_build)
    IN  IF ~is_dir(ice_build) THEN base
        ELSE IF selected_tb # NoPath /\ IsUnder(tb_path, ice_build) THEN PathParent(tb_path)
        ELSE IF Cardinality(project_dirs) = 1 THEN CHOOSE d \in project_dirs : TRUE
        ELSE IF is_file(Append(ice_build, "main.v")) THEN ice_build
        ELSE base

----------------------------------------------------------------------------
(* The compile plan *)

\* [src for src in s if not Path(src).name.endswith("_tb.v")]
RECURSIVE DropTbNamed(_)
DropTbNamed(s) ==
    IF s = <<>> THEN <<>>
    ELSE IF EndsWith(NameChars[PathName(Head(s))], TB_SUFFIX) THEN DropTbNamed(Tail(s))
    ELSE <<Head(s)>> \o DropTbNamed(Tail(s))

PlanFailure(key) == [success |-> FALSE, messages |-> <<ErrorPopup(key)>>, plan |-> NoPlan]

\* mutant: a requested testbench is taken without looking at the discovered ones
selected_tb_as_requested(tb_file, discovery) ==
    IF tb_file # NoPath THEN tb_file ELSE discovery.preferred_tb

\* line 273
selected_tb_of(tb_file, discovery) ==
    IF tb_file \in SeqRange(discovery.tb_files) THEN tb_file ELSE discovery.preferred_tb

\* mutant: the second guidance check is skipped
ambiguous_scope_never(base_path, selected_tb) == FALSE

\* lines 276-279: the scope is still the whole folder and there are several
\* subprojects
ambiguous_scope(base_path, selected_tb) ==
    LET scope_dir == guess_icestudio_scope(base_path, selected_tb)
        ice_build == Append(base_path, ICE_BUILD_DIR)
        project_dirs == IF is_dir(ice_build) THEN SubDirs(ice_build) ELSE {}
    IN  scope_dir = base_path /\ Cardinality(project_dirs) > 1

\* mutant: the sources of the narrowed scope are taken even when there are none
scoped_source_files_narrowed_only(base_path, selected_tb, discovered) ==
    LET scope_dir == guess_icestudio_scope(base_path, selected_tb)
    IN  sorted_unique_paths(
            SortResolved({ e \in rglob(scope_dir, V_SUFFIX) :
                             ~EndsWith(NameChars[PathName(e)], TB_SUFFIX) }))

\* lines 289-295: the sources of the narrowed scope replace the discovered
\* ones when there are any
scoped_source_files(base_path, selected_tb, discovered) ==
    LET scope_dir == guess_icestudio_scope(base_path, selected_tb)
        scope_sources ==
            SortResolved({ e \in rglob(scope_dir, V_SUFFIX) :
                             ~EndsWith(NameChars[PathName(e)], TB_SUFFIX) })
    IN  IF scope_sources # <<>> THEN sorted_unique_paths(scope_sources) ELSE discovered

\* lines 297-301
compile_files_of(source_files, selected_tb) ==
    LET source_no_tb == DropTbNamed(source_files)
    IN  sorted_unique_paths(
            IF selected_tb # NoPath THEN Append(source_no_tb, selected_tb)
            ELSE source_no_tb)

\* mutant: the plan is returned without looking at the compile list
no_compile_files_unchecked(compile_files) == FALSE

\* line 303
no_compile_files(compile_files) == compile_files = <<>>

\* lines 245-321: discovery and everything that depends on it
PlanFromDiscovery(folder, mode, tb_file, iverilog, gtkwave) ==
    LET discovery == discover_project_files(folder, mode)
        base_path == folder
        selected_tb == selected_tb_of(tb_file, discovery)
        icestudio == discovery.effective_mode = "icestudio"
        source_files ==
            IF icestudio
            THEN scoped_source_files(base_path, selected_tb, discovery.source_files)
            ELSE discovery.source_files
        compile_files == compile_files_of(source_files, selected_tb)
    IN  IF /\ discovery.source_files = <<>>
           /\ PathName(base_path) = ICE_BUILD_DIR
           /\ Cardinality(SubDirs(base_path)) > 1
        THEN PlanFailure("msg_multiple_icestudio")
        ELSE IF discovery.source_files = <<>> THEN PlanFailure("msg_no_sources")
        ELSE IF icestudio /\ ambiguous_scope(base_path, selected_tb)
        THEN PlanFailure("msg_multiple_icestudio")
        ELSE IF no_compile_files(compile_files) THEN PlanFailure("msg_no_compile_files")
        ELSE [ success |-> TRUE,
               messages |-> <<>>,
               plan |-> [ folder |-> folder,
                          mode |-> discovery.effective_mode,
                          selected_tb |-> selected_tb,
                          compile_files |-> compile_files,
                          iverilog |-> iverilog,
                          gtkwave |-> gtkwave ] ]

\* lines 225 and 235: `not path or not os.path.isfile(path)`
tool_invalid(path) == path = NoPath \/ ~is_file(path)

\* mutant: the tool paths are looked at only after discovery has succeeded
build_compile_plan_tools_last(folder_arg, mode_arg, tb_file, require_tools) ==
    LET folder == IF folder_arg # NoPath THEN folder_arg ELSE config.verilog_folder
        mode_cfg == IF mode_arg # "" THEN mode_arg ELSE config.project_mode
        mode == IF mode_cfg # "" THEN mode_cfg ELSE "auto"
        iverilog == config.iverilog_path
        gtkwave == config.gtkwave_path
        found == PlanFromDiscovery(folder, mode, tb_file, iverilog, gtkwave)
    IN  IF folder = NoPath \/ ~is_dir(folder) THEN PlanFailure("msg_folder_invalid")
        ELSE IF ~found.success THEN found
        ELSE IF require_tools /\ tool_invalid(iverilog) THEN PlanFailure("msg_iverilog_invalid")
        ELSE IF require_tools /\ tool_invalid(gtkwave) THEN PlanFailure("msg_gtkwave_invalid")
        ELSE found

build_compile_plan(folder_arg, mode_arg, tb_file, require_tools) ==
    LET folder == IF folder_arg # NoPath THEN folder_arg ELSE config.verilog_folder
        mode_cfg == IF mode_arg # "" THEN mode_arg ELSE config.project_mode
        mode == IF mode_cfg # "" THEN mode_cfg ELSE "auto"
        iverilog == config.iverilog_path
        gtkwave == config.gtkwave_path
    IN  IF folder = NoPath \/ ~is_dir(folder) THEN PlanFailure("msg_folder_invalid")
        ELSE IF require_tools /\ tool_invalid(iverilog) THEN PlanFailure("msg_iverilog_invalid")
        ELSE IF require_tools /\ tool_invalid(gtkwave) THEN PlanFailure("msg_gtkwave_invalid")
        ELSE PlanFromDiscovery(folder, mode, tb_file, iverilog, gtkwave)

\* lines 210-211 and 244-247: what discover_project_files finds for the folder
\* and the mode of a call, kept with the call (nothing when the folder is
\* invalid)
plan_discovery(folder_arg, mode_arg) ==
    LET folder == IF folder_arg # NoPath THEN folder_arg ELSE config.verilog_folder
        mode_cfg == IF mode_arg # "" THEN mode_arg ELSE config.project_mode
        mode == IF mode_cfg # "" THEN mode_cfg ELSE "auto"
    IN  IF folder = NoPath \/ ~is_dir(folder) THEN <<>>
        ELSE discover_project_files(folder, mode)

----------------------------------------------------------------------------
(* The viewer session: ProcessRunner threads and their subprocesses *)

NoThread == 0
NoFile == <<>>
NoRet == [op |-> "none"]

ThreadIds == 1..MaxRuns

\* phase: "new" (not constructed), "started" (start() was called, run() has not
\* reached Popen), "running" (run() reads the pipes of its subprocess),
\* "finished" (run() returned).  proc: "none" (self.process is None), "alive",
\* "exited".
NewThread == [phase |-> "new", proc |-> "none", command |-> <<>>]

\* QThread.isRunning()
isRunning(t) == threads[t].phase \in {"started", "running"}

\* the viewer subprocesses that are alive
AliveViewers == { t \in ThreadIds : threads[t].proc = "alive" }

\* ProcessRunner.run line 29: the worker thread spawns the viewer
WorkerSpawn(t) ==
    /\ threads[t].phase = "started"
    /\ threads' = [threads EXCEPT ![t].phase = "running", ![t].proc = "alive"]
    /\ UNCHANGED <<planVars, vcds, clock, gtkw, gtkwave_thread, pc, run, closing, nruns, ret>>

\* the viewer's window is closed by its user, or a signal sent earlier takes effect
ViewerExits(t) ==
    /\ threads[t].proc = "alive"
    /\ threads' = [threads EXCEPT ![t].proc = "exited"]
    /\ UNCHANGED <<planVars, vcds, clock, gtkw, gtkwave_thread, pc, run, closing, nruns, ret>>

\* ProcessRunner.run lines 38-46: the pipes reach end of file, wait() returns
WorkerFinish(t) ==
    /\ threads[t].phase = "running"
    /\ threads[t].proc = "exited"
    /\ threads' = [threads EXCEPT ![t].phase = "finished"]
    /\ UNCHANGED <<planVars, vcds, clock, gtkw, gtkwave_thread, pc, run, closing, nruns, ret>>

\* what terminate() / kill() and the bounded waits of _stop_tracked_gtkwave can
\* do to the subprocess: it exits within the first wait, only after kill(), or
\* within neither wait
StopOutcomes == { "terminated", "killed", "survived" }

\* _stop_tracked_gtkwave lines 33-45 for thread t: signals is what was sent
stop_signals(th, t, outcome) ==
    IF th[t].proc = "none" THEN <<>>
    ELSE IF outcome = "terminated" \/ th[t].proc = "exited" THEN <<"terminate">>
    ELSE <<"terminate", "kill">>

\* thread_ends: run() returns within the 1200 ms of QThread.wait
stop_tracked_gtkwave(th, t, outcome, thread_ends) ==
    LET proc == IF th[t].proc = "alive" /\ outcome # "survived" THEN "exited" ELSE th[t].proc
        phase == IF th[t].phase = "running" /\ proc = "exited" /\ thread_ends
                 THEN "finished" ELSE th[t].phase
    IN  [th EXCEPT ![t].phase = phase, ![t].proc = proc]

----------------------------------------------------------------------------
(* run_simulation *)

LogMessage(key, kwargs) == create_message("log", tr(key, kwargs), NoExtras, NoData)

\* mutant: the error message carries no data
stage_error_message_without_data(stage, key, stderr) ==
    create_message("error", tr(key, [stderr |-> stderr]), <<"popup">>, NoData)

\* lines 370-377 and 395-402
stage_error_message(stage, key, stderr) ==
    create_message("error", tr(key, [stderr |-> stderr]), <<"popup">>,
                   [stage |-> stage, stderr |-> stderr])

NoRc == -1

NewRun ==
    [ folder |-> NoPath, plan |-> NoPlan, messages |-> <<>>, snapshot |-> <<>>,
      vcd_file |-> NoPath, events |-> <<>>,
      compile_rc |-> NoRc, compile_stderr |-> "", sim_rc |-> NoRc, sim_stderr |-> "",
      generated |-> FALSE, session_before |-> NoThread, gtkw_before |-> NoFile,
      signals |-> <<>>, ui |-> <<>>, settings_before |-> <<>> ]

Event(r, e) == [r EXCEPT !.events = Append(@, e)]
Say(r, m) == [r EXCEPT !.messages = Append(@, m)]

Returned(op, success, messages) == [op |-> op, success |-> success, messages |-> messages]

\* what the compiler and the simulator can print on stderr
Stderrs == { "", "foo.v:10: syntax error" }
ExitCodes == { 0, 2 }

\* {path: mtime for path in Path(folder).glob("*.vcd")}
dump_files(folder, all) ==
    LET found == { v \in DOMAIN all :
                     PathParent(v) = folder /\ EndsWith(NameChars[PathName(v)], VCD_SUFFIX) }
    IN  [ v \in found |-> all[v] ]

\* lines 354-368: the compiler is started
start_compiler(r) ==
    Event(Say(r, LogMessage("msg_compiling",
                            [count |-> Len(r.plan.compile_files), mode |-> r.plan.mode])),
          "compile_start")

\* lines 380-382
take_snapshot(r, all) == Event([r EXCEPT !.snapshot = dump_files(r.folder, all)], "snapshot")

\* lines 384-392: the simulator is started
start_simulator(r) == Event(Say(r, LogMessage("msg_running", <<>>)), "simulate_start")

\* mutant: the snapshot is taken once the simulator has been started
after_compile_snapshot_late(r, all) == take_snapshot(start_simulator(r), all)

\* lines 380-392 in order
after_compile(r, all) == start_simulator(take_snapshot(r, all))

\* mutant: the exit code of the compiler is ignored
compile_failed_never(returncode) == FALSE

\* line 369
compile_failed(returncode) == returncode # 0

\* mutant: the exit code of the simulator is ignored
simulate_failed_never(returncode) == FALSE

\* line 394
simulate_failed(returncode) == returncode # 0

\* mutant: a dump file whose modification time did not change counts as updated
find_recent_vcd_not_older(folder, previous_snapshot, all) ==
    LET current_vcds == dump_files(folder, all)
        new_or_updated ==
            { v \in DOMAIN current_vcds :
                \/ v \notin DOMAIN previous_snapshot
                \/ current_vcds[v] >= previous_snapshot[v] }
        newest(S) == { v \in S : \A w \in S : current_vcds[w] <= current_vcds[v] }
    IN  IF new_or_updated # {} THEN newest(new_or_updated)
        ELSE newest(DOMAIN current_vcds)

\* _find_recent_vcd: the paths max() can return (several when modification
\* times tie), none when there is no dump file
find_recent_vcd(folder, previous_snapshot, all) ==
    LET current_vcds == dump_files(folder, all)
        new_or_updated ==
            { v \in DOMAIN current_vcds :
                \/ v \notin DOMAIN previous_snapshot
                \/ current_vcds[v] > previous_snapshot[v] }
        newest(S) == { v \in S : \A w \in S : current_vcds[w] <= current_vcds[v] }
    IN  IF new_or_updated # {} THEN newest(new_or_updated)
        ELSE newest(DOMAIN current_vcds)

\* lines 405-414: the dump file run_simulation goes on with (found: the paths
\* _find_recent_vcd can return) and the message it fails with when there is none
locate_dump(folder, previous_snapshot, all) ==
    LET found == find_recent_vcd(folder, previous_snapshot, all)
    IN  [ found |-> found,
          failure |-> IF found = {} THEN <<ErrorPopup("msg_no_vcd")>> ELSE <<>> ]

ScreenSize == <<1920, 1080>>

\* the hierarchical signal names a dump file can declare
SignalChars ==
    "tb.clk" :> <<116, 98, 46, 99, 108, 107>> @@
    "tb.q" :> <<116, 98, 46, 113>> @@
    "top.x" :> <<116, 111, 112, 46, 120>> @@
    "tbx.y" :> <<116, 98, 120, 46, 121>> @@
    "tb.DURATION" :> <<116, 98, 46, 68, 85, 82, 65, 84, 73, 79, 78>> @@
    "tb.duration" :> <<116, 98, 46, 100, 117, 114, 97, 116, 105, 111, 110>> @@
    "tb.v1a2b3c" :> <<116, 98, 46, 118, 49, 97, 50, 98, 51, 99>> @@
    "tb.v1a2b" :> <<116, 98, 46, 118, 49, 97, 50, 98>> @@
    "tb.W3" :> <<116, 98, 46, 87, 51>> @@
    "tb.wx" :> <<116, 98, 46, 119, 120>> @@
    "tb.vinit" :> <<116, 98, 46, 118, 105, 110, 105, 116>> @@
    "top.u.VABCDEF0" :> <<116, 111, 112, 46, 117, 46, 86, 65, 66, 67, 68, 69, 70, 48>>

SignalNames == DOMAIN SignalChars

\* the module names _extract_tb_top can find in a testbench
ModuleChars ==
    "tb" :> <<116, 98>> @@
    "top" :> <<116, 111, 112>>

\* _extract_tb_top returns None
NoTop == ""

\* "DURATION" and "."
DURATION == <<68, 85, 82, 65, 84, 73, 79, 78>>
DOT == 46

\* re.IGNORECASE: the lower-case letter of an ASCII letter
Lower(c) == IF c \in 65..90 THEN c + 32 ELSE c

\* [a-f0-9] and \d under re.IGNORECASE
IsHex(c) == Lower(c) \in 97..102 \/ c \in 48..57
IsDigit(c) == c \in 48..57

\* line 153: exclude_pattern.search(name) for
\* r"\.v[a-f0-9]{6,}|\.w\d+|\.vinit" with re.IGNORECASE
exclude_pattern(s) ==
    \E i \in 1..Len(s) :
        /\ s[i] = DOT
        /\ \/ /\ Len(s) >= i + 7
              /\ Lower(s[i + 1]) = 118
              /\ \A k \in 2..7 : IsHex(s[i + k])
           \/ /\ Len(s) >= i + 2
              /\ Lower(s[i + 1]) = 119
              /\ IsDigit(s[i + 2])
           \/ /\ Len(s) >= i + 5
              /\ [ k \in 1..5 |-> Lower(s[i + k]) ] = <<118, 105, 110, 105, 116>>

\* lines 163-167: the names that are not skipped
survives(name) ==
    /\ ~Contains(SignalChars[name], DURATION)
    /\ ~exclude_pattern(SignalChars[name])

\* lines 159-174: the surviving names referenced by the signals of the given types
signals_of(data, types) ==
    { name \in UNION { SeqRange(signal.references) :
                         signal \in { x \in data : x.var_type \in types } } :
        survives(name) }

\* every var_type a signal of the dump file has
types_of(data) == { signal.var_type : signal \in data }

\* mutant: the top module of the testbench is not looked at
select_signals_unscoped(data, tb_top) ==
    LET reg_signals == signals_of(data, {"reg"})
        wire_signals == signals_of(data, {"wire"})
    IN  IF reg_signals \cup wire_signals # {}
        THEN [ regs |-> reg_signals, wires |-> wire_signals ]
        ELSE [ regs |-> {}, wires |-> signals_of(data, types_of(data)) ]

\* lines 155-188: the names written as state-holding and as combinational signals
select_signals(data, tb_top) ==
    LET reg_signals == signals_of(data, {"reg"})
        wire_signals == signals_of(data, {"wire"})
        all_signals == signals_of(data, types_of(data))
        scoped(S) ==
            IF tb_top # NoTop
            THEN { name \in S :
                     StartsWith(SignalChars[name], Append(ModuleChars[tb_top], DOT)) }
            ELSE {}
    IN  IF scoped(reg_signals) \cup scoped(wire_signals) # {}
        THEN [ regs |-> scoped(reg_signals), wires |-> scoped(wire_signals) ]
        ELSE IF reg_signals \cup wire_signals # {}
        THEN [ regs |-> reg_signals, wires |-> wire_signals ]
        ELSE [ regs |-> {}, wires |-> all_signals ]

RECURSIVE SortNames(_)
\* sorted(S) for a set of signal names, one line each
SortNames(S) ==
    IF S = {} THEN <<>>
    ELSE LET m == CHOOSE x \in S :
                    \A y \in S \ {x} : StrLess(SignalChars[x], SignalChars[y])
         IN  << <<m>> >> \o SortNames(S \ {m})

\* mutant: the dump file is named by its whole path
gtkw_content_with_path(vcd_path, screen_size, selected) ==
    << <<"[dumpfile]", vcd_path>>,
       <<"[size]", screen_size[1], screen_size[2]>> >>
    \o SortNames(selected.regs) \o SortNames(selected.wires)

\* mutant: the combinational signals are written before the state-holding ones
gtkw_content_wires_first(vcd_path, screen_size, selected) ==
    << <<"[dumpfile]", PathName(vcd_path)>>,
       <<"[size]", screen_size[1], screen_size[2]>> >>
    \o SortNames(selected.wires) \o SortNames(selected.regs)

\* create_gtkw_config lines 190-200: what is written
gtkw_content(vcd_path, screen_size, selected) ==
    << <<"[dumpfile]", PathName(vcd_path)>>,
       <<"[size]", screen_size[1], screen_size[2]>> >>
    \o SortNames(selected.regs) \o SortNames(selected.wires)

\* lines 117-126: the first module the testbench declares; the model's
\* main_tb.v declares module tb, its other testbenches declare none
extract_tb_top(tb_file) ==
    IF tb_file = NoPath \/ ~is_file(tb_file) THEN NoTop
    ELSE IF PathName(tb_file) = "main_tb.v" THEN "tb"
    ELSE NoTop

\* what VCDVCD reads from the dump file the model's simulator writes
SimulatedData ==
    { [ var_type |-> "reg", references |-> <<"tb.clk">> ],
      [ var_type |-> "wire", references |-> <<"tb.q">> ],
      [ var_type |-> "wire", references |-> <<"top.x">> ],
      [ var_type |-> "parameter", references |-> <<"tb.DURATION">> ] }

RunFolderArgs == { NoPath, ProjectDir, MissingDir }

\* what the window hands to run_simulation: the folder entry, the mode combo
\* and the testbench combo (main.py lines 756-763)
UiInputs == {
    [ folder |-> NoPath, mode |-> "auto", tb_file |-> NoPath ],
    [ folder |-> ProjectDir, mode |-> "generic", tb_file |-> <<"p", "main_tb.v">> ],
    [ folder |-> MissingDir, mode |-> "auto", tb_file |-> NoPath ] }

RecentLimit == 12

\* the home directory of the user and the working directory of the process
HomeDir == <<"h">>
CwdDir == ProjectDir

\* the components a spelling of a path may hold besides names
HOME == "~"
CURDIR == "."
PARDIR == ".."

\* os.path.normpath on the components of an absolute path: "." is dropped and
\* ".." removes the component before it (nothing at the root)
RECURSIVE normpath(_, _)
normpath(parts, done) ==
    IF parts = <<>> THEN done
    ELSE IF Head(parts) = CURDIR THEN normpath(Tail(parts), done)
    ELSE IF Head(parts) = PARDIR
         THEN normpath(Tail(parts),
                       IF done = <<>> THEN done ELSE SubSeq(done, 1, Len(done) - 1))
    ELSE normpath(Tail(parts), Append(done, Head(parts)))

\* push_recent line 82: os.path.abspath(os.path.expanduser(item)); a spelling
\* is absolute unless it begins with "~", "." or ".."
normalize_path(item) ==
    LET expanded == IF Head(item) = HOME THEN HomeDir \o Tail(item) ELSE item
        absolute == IF Head(expanded) \in { CURDIR, PARDIR }
                    THEN CwdDir \o expanded ELSE expanded
    IN  normpath(absolute, <<>>)

\* the first limit entries of a list: items[:limit]
first_entries(items, limit) ==
    SubSeq(items, 1, IF Len(items) < limit THEN Len(items) ELSE limit)

\* mutant: the entries equal to the item are kept
push_recent_keep_duplicates(items, item, limit) ==
    IF item = NoPath THEN items
    ELSE first_entries(<<normalize_path(item)>> \o items, limit)

\* SettingsManager.push_recent lines 76-87, called with normalize=True: the
\* normalised item goes to the front, its earlier entry and empty entries are
\* dropped, and the first limit entries are saved
push_recent(items, item, limit) ==
    IF item = NoPath THEN items
    ELSE LET normalized == normalize_path(item)
             kept == SelectSeq(items, LAMBDA i : i # NoPath /\ i # normalized)
         IN  first_entries(<<normalized>> \o kept, limit)

\* mutant: the last-used fields are stored whatever the run returned
settings_after_run_always(cfg, success, ui) ==
    [cfg EXCEPT !.verilog_folder = ui.folder,
                !.project_mode = ui.mode,
                !.selected_tb = ui.tb_file,
                !.recent_projects = push_recent(@, ui.folder, RecentLimit)]

\* BenchSimApp.run_simulation lines 768-776: `if success:` update_config and
\* add_recent_project
settings_after_run(cfg, success, ui) ==
    IF success
    THEN [cfg EXCEPT !.verilog_folder = ui.folder,
                     !.project_mode = ui.mode,
                     !.selected_tb = ui.tb_file,
                     !.recent_projects = push_recent(@, ui.folder, RecentLimit)]
    ELSE cfg

\* the settings once the step is over: run_simulation of the window stores
\* them right after the orchestrator has returned
settings_after_step(now, returned, success, ui) ==
    IF returned THEN settings_after_run(now, success, ui) ELSE now

InitRun ==
    /\ clock = 0
    /\ gtkw = NoFile
    /\ gtkwave_thread = NoThread
    /\ threads = [ t \in ThreadIds |-> NewThread ]
    /\ pc = "idle"
    /\ run = NewRun
    /\ closing = <<>>
    /\ nruns = 0
    /\ ret = NoRet

\* lines 325-368: the plan is built; on success the compiler is started and
\* the UI thread blocks in subprocess.run
RunSimulationBegin ==
    /\ pc = "idle"
    /\ nruns < MaxRuns
    /\ \E ui \in UiInputs :
         LET res == build_compile_plan(ui.folder, ui.mode, ui.tb_file, TRUE)
             r0 == Event([NewRun EXCEPT !.messages = res.messages,
                                        !.ui = ui,
                                        !.settings_before = config,
                                        !.session_before = gtkwave_thread,
                                        !.gtkw_before = gtkw], "plan")
         IN  /\ IF ~res.success
                THEN /\ run' = r0
                     /\ ret' = Returned("run_simulation", FALSE, r0.messages)
                     /\ pc' = "idle"
                ELSE /\ run' = start_compiler([r0 EXCEPT !.plan = res.plan,
                                                         !.folder = res.plan.folder])
                     /\ ret' = NoRet
                     /\ pc' = "compile"
             /\ call' = [ op |-> "build_compile_plan",
                          folder |-> ui.folder, mode |-> ui.mode, tb_file |-> ui.tb_file,
                          require_tools |-> TRUE,
                          discovery |-> plan_discovery(ui.folder, ui.mode),
                          result |-> res ]
    /\ nruns' = nruns + 1
    /\ config' = settings_after_step(config, pc' = "idle", pc' = "idle" /\ ret'.success, run'.ui)
    /\ UNCHANGED <<fsVars, vcds, clock, gtkw, viewerVars, closing>>

\* lines 361-392: the compiler exits
CompilerExits ==
    /\ pc = "compile"
    /\ \E rc \in ExitCodes, stderr \in Stderrs :
         LET r1 == Event([run EXCEPT !.compile_rc = rc, !.compile_stderr = stderr],
                         "compile_exit")
         IN  IF compile_failed(rc)
             THEN LET r2 == Say(r1, stage_error_message("compile", "msg_compile_error", stderr))
                  IN  /\ run' = r2
                      /\ ret' = Returned("run_simulation", FALSE, r2.messages)
                      /\ pc' = "idle"
             ELSE /\ run' = after_compile(r1, vcds)
                  /\ ret' = NoRet
                  /\ pc' = "simulate"
    /\ config' = settings_after_step(config, pc' = "idle", pc' = "idle" /\ ret'.success, run'.ui)
    /\ UNCHANGED <<fsVars, call, vcds, clock, gtkw, viewerVars, closing, nruns>>

\* what a run of the simulator does to the dump files of its folder
DumpEffects == { "none", "new" }

simulator_dumps(folder, effect, all, now) ==
    IF effect = "new"
    THEN LET out == Append(folder, "simulation.vcd")
         IN  [ v \in DOMAIN all \cup {out} |-> IF v = out THEN now ELSE all[v] ]
    ELSE all

RemoveDump(all, gone) == [ v \in DOMAIN all \ {gone} |-> all[v] ]

\* line 341
gtkw_config_of(folder) == Append(folder, "simulation.gtkw")

\* what can go wrong while the configuration is generated
ConfigFaults == { "none", "parse_error", "write_error" }

\* an exception that leaves run_simulation: nothing is returned
Raised(op, exc) == [op |-> op, raised |-> exc]

\* create_gtkw_config, for a dump file VCDVCD reads data from
\* fault: what goes wrong in it, "parse_error" (VCDVCD raises on the dump
\* file, line 152) or "write_error" (open(gtkw_path, "w") raises, line 192)
create_gtkw_config(vcd_path, gtkw_path, screen_size, tb_top, all, store, fault, data) ==
    IF vcd_path \notin DOMAIN all
    THEN [ generated |-> FALSE, raised |-> "none", file |-> store ]
    ELSE IF fault = "parse_error"
    THEN [ generated |-> FALSE, raised |-> "VCDVCD", file |-> store ]
    ELSE IF fault = "write_error"
    THEN [ generated |-> FALSE, raised |-> "OSError", file |-> store ]
    ELSE [ generated |-> TRUE, raised |-> "none",
           file |-> [ g \in DOMAIN store \cup {gtkw_path} |->
                        IF g = gtkw_path
                        THEN gtkw_content(vcd_path, screen_size,
                                          select_signals(data, tb_top))
                        ELSE store[g] ] ]

\* lines 385-426: the simulator exits, the dump file is located and the viewer
\* configuration is written.  vanished: another program removes the dump file
\* between _find_recent_vcd and the os.path.exists of create_gtkw_config.
SimulatorExits ==
    /\ pc = "simulate"
    /\ \E rc \in ExitCodes, stderr \in Stderrs, effect \in DumpEffects, vanished \in BOOLEAN,
          fault \in ConfigFaults :
         LET all == simulator_dumps(run.folder, effect, vcds, clock + 1)
             r1 == Event([run EXCEPT !.sim_rc = rc, !.sim_stderr = stderr], "simulate_exit")
             r2 == Event(r1, "locate")
             located == locate_dump(run.folder, run.snapshot, all)
             found == located.found
         IN  /\ clock' = clock + 1
             /\ IF simulate_failed(rc)
                THEN LET r == Say(r1, stage_error_message("simulate", "msg_sim_error", stderr))
                     IN  /\ run' = r
                         /\ ret' = Returned("run_simulation", FALSE, r.messages)
                         /\ pc' = "idle"
                         /\ vcds' = all
                         /\ gtkw' = gtkw
                ELSE IF found = {}
                THEN LET r == Say(r2, located.failure[1])
                     IN  /\ run' = r
                         /\ ret' = Returned("run_simulation", FALSE, r.messages)
                         /\ pc' = "idle"
                         /\ vcds' = all
                         /\ gtkw' = gtkw
                ELSE \E vcd_file \in found :
                     LET left == IF vanished THEN RemoveDump(all, vcd_file) ELSE all
                         tb_top == extract_tb_top(run.plan.selected_tb)
                         made == create_gtkw_config(vcd_file, gtkw_config_of(run.folder),
                                                   ScreenSize, tb_top, left, gtkw, fault,
                                                   SimulatedData)
                         r3 == Event([r2 EXCEPT !.vcd_file = vcd_file,
                                                !.generated = made.generated], "config")
                     IN  /\ vcds' = left
                         /\ gtkw' = made.file
                         /\ IF made.raised # "none"
                            THEN /\ run' = r3
                                 /\ ret' = Raised("run_simulation_raised", made.raised)
                                 /\ pc' = "raised"
                            ELSE IF ~made.generated
                            THEN LET r == Say(r3, ErrorPopup("msg_gtkw_config_error"))
                                 IN  /\ run' = r
                                     /\ ret' = Returned("run_simulation", FALSE, r.messages)
                                     /\ pc' = "idle"
                            ELSE /\ run' = r3
                                 /\ ret' = NoRet
                                 /\ pc' = "viewer"
    /\ config' = settings_after_step(config, pc' = "idle", pc' = "idle" /\ ret'.success, run'.ui)
    /\ UNCHANGED <<fsVars, call, viewerVars, closing, nruns>>

\* line 428
gtkwave_cmd_of(r) == <<r.plan.gtkwave, gtkw_config_of(r.folder)>>

\* the ProcessRunner the next launch constructs
NextThread == CHOOSE t \in ThreadIds :
                 /\ threads[t].phase = "new"
                 /\ \A u \in ThreadIds : u < t => threads[u].phase # "new"

\* mutant: a tracked thread is restarted whether it is running or not
restart_needed_if_tracked == gtkwave_thread # NoThread

\* line 431: `self.gtkwave_thread and self.gtkwave_thread.isRunning()`
restart_needed == gtkwave_thread # NoThread /\ isRunning(gtkwave_thread)

\* lines 428-440: the previous session is stopped if its thread is running,
\* and a new ProcessRunner is started
ViewerStage ==
    /\ pc = "viewer"
    /\ \E outcome \in StopOutcomes, thread_ends \in BOOLEAN :
         LET old == gtkwave_thread
             restart == restart_needed
             r1 == IF restart
                   THEN Event([ Say(Say(run,
                                   create_message("success", tr("msg_sim_updated", <<>>),
                                                  <<"toast">>, NoData)),
                                   LogMessage("msg_gtkw_restarting", <<>>))
                                EXCEPT !.signals = stop_signals(threads, old, outcome) ],
                              "viewer_stop")
                   ELSE run
             stopped == IF restart
                        THEN stop_tracked_gtkwave(threads, old, outcome, thread_ends)
                        ELSE threads
             r2 == Event(Say(r1, LogMessage("msg_opening_gtkw",
                                            [cmd |-> gtkwave_cmd_of(run)])),
                         "viewer_start")
         IN  /\ threads' = [stopped EXCEPT ![NextThread] =
                                  [phase |-> "started", proc |-> "none",
                                   command |-> gtkwave_cmd_of(run)]]
             /\ gtkwave_thread' = NextThread
             /\ run' = r2
             /\ ret' = Returned("run_simulation", TRUE, r2.messages)
             /\ pc' = "idle"
    /\ config' = settings_after_step(config, pc' = "idle", pc' = "idle" /\ ret'.success, run'.ui)
    /\ UNCHANGED <<fsVars, call, vcds, clock, gtkw, closing, nruns>>

----------------------------------------------------------------------------
(* close_gtkwave *)

\* mutant: a tracked thread counts as a session, running or not
session_running_if_tracked == gtkwave_thread # NoThread

\* line 446: `self.gtkwave_thread and self.gtkwave_thread.isRunning()`
session_running == gtkwave_thread # NoThread /\ isRunning(gtkwave_thread)

\* mutant: the failure of the kill is reported as an error
close_failure_message_as_error(exc) ==
    create_message("error", tr("msg_gtkw_close_error", [error |-> exc]), <<"popup">>, NoData)

\* lines 461-466: the exception of kill() or wait(timeout=3) becomes a log line
close_failure_message(exc) == LogMessage("msg_gtkw_close_error", [error |-> exc])

\* lines 444-468: `pkill -f gtkwave` signals every viewer (those in hit exit at
\* once), the tracked subprocess is killed and waited for 3 s (kill_waited:
\* it exited in time), then the UI thread blocks in QThread.wait()
CloseGtkwave ==
    /\ pc = "idle"
    /\ IF session_running
       THEN \E hit \in SUBSET AliveViewers, kill_waited \in BOOLEAN :
              LET t == gtkwave_thread
                  th1 == [ u \in ThreadIds |->
                             IF u \in hit THEN [threads[u] EXCEPT !.proc = "exited"]
                             ELSE threads[u] ]
                  th2 == IF th1[t].proc = "alive" /\ kill_waited
                         THEN [th1 EXCEPT ![t].proc = "exited"] ELSE th1
                  outcome == IF th1[t].proc = "none" THEN <<>>
                             ELSE IF th2[t].proc = "exited"
                             THEN <<LogMessage("msg_gtkw_closed", <<>>)>>
                             ELSE <<close_failure_message("TimeoutExpired")>>
              IN  /\ threads' = th2
                  /\ closing' = <<LogMessage("msg_gtkw_closing", <<>>)>> \o outcome
                  /\ pc' = "close_wait"
                  /\ UNCHANGED <<gtkwave_thread, ret>>
       ELSE /\ ret' = Returned("close_gtkwave", TRUE, <<>>)
            /\ UNCHANGED <<threads, closing, pc, gtkwave_thread>>
    /\ UNCHANGED <<planVars, vcds, clock, gtkw, run, nruns>>

\* lines 468-471: QThread.wait() returns once run() has returned
CloseReturns ==
    /\ pc = "close_wait"
    /\ ~isRunning(gtkwave_thread)
    /\ gtkwave_thread' = NoThread
    /\ ret' = Returned("close_gtkwave", TRUE, closing)
    /\ closing' = <<>>
    /\ pc' = "idle"
    /\ UNCHANGED <<planVars, vcds, clock, gtkw, threads, run, nruns>>

----------------------------------------------------------------------------
(* Calls of the plan builder on a project folder *)

NoCall == [op |-> "none"]

FolderArgs == { NoPath, ProjectDir, <<"p", "ice-build">>, MissingDir }
ModeArgs == { "", "auto", "icestudio", "generic" }
TbArgs == { NoPath, <<"p", "a_tb.v">>, <<"p", "ice-build", "b", "main_tb.v">> }

Settings(folder, mode, iverilog, gtkwave) ==
    [ verilog_folder |-> folder, project_mode |-> mode,
      iverilog_path |-> iverilog, gtkwave_path |-> gtkwave,
      selected_tb |-> NoPath, recent_projects |-> <<>> ]

\* the settings and the installed tools the plan builder is run against
Setups == {
    [ config |-> Settings(ProjectDir, "auto", IverilogBin, GtkwaveBin),
      tools |-> { IverilogBin, GtkwaveBin } ],
    [ config |-> Settings(NoPath, "generic", IverilogBin, NoPath),
      tools |-> { IverilogBin } ],
    [ config |-> Settings(NoPath, "", IverilogBin, GtkwaveBin),
      tools |-> {} ] }

\* directories whose bare existence the plan builder looks at
ObservedDirs == { d \in DirSlots : IsUnder(d, ProjectDir) /\ ICE_BUILD_DIR \in SeqRange(d) }

ProjectFs(fs, ls, ds, tools) ==
    /\ Cardinality(fs \cup ls) <= MaxFiles
    /\ files = fs \cup tools
    /\ links = ls
    /\ dirs = ds \cup FixedDirs
    /\ contents = <<>>
    /\ \A d \in ds \ ObservedDirs : \E e \in fs \cup ls : IsUnder(e, d)
    /\ WellFormedFs

InitPlan ==
    /\ \E setup \in Setups :
         /\ config = setup.config
         /\ \E fs \in SUBSET FileSlots, ls \in SUBSET LinkSlots, ds \in SUBSET DirSlots :
              ProjectFs(fs, ls, ds, setup.tools)
    /\ call = NoCall
    /\ vcds = <<>>
    /\ InitRun

\* BenchSimApp.validate_project and run_simulation call build_compile_plan
BuildCompilePlan ==
    /\ call = NoCall
    /\ \E folder \in FolderArgs, mode \in ModeArgs, tb_file \in TbArgs, require_tools \in BOOLEAN :
         /\ call' = [ op |-> "build_compile_plan",
                      folder |-> folder, mode |-> mode, tb_file |-> tb_file,
                      require_tools |-> require_tools,
                      discovery |-> plan_discovery(folder, mode),
                      result |-> build_compile_plan(folder, mode, tb_file, require_tools) ]
         /\ UNCHANGED <<fsVars, config, runVars>>

\* BenchSimApp._refresh_project calls discover_project_files on an existing folder
DiscoverProjectFiles ==
    /\ call = NoCall
    /\ \E folder \in { f \in FolderArgs : f # NoPath /\ is_dir(f) }, mode \in ModeArgs :
         /\ call' = [ op |-> "discover_project_files",
                      folder |-> folder, mode |-> mode,
                      result |-> discover_project_files(folder, mode) ]
         /\ UNCHANGED <<fsVars, config, runVars>>

NextPlan == BuildCompilePlan \/ DiscoverProjectFiles

SpecPlan == InitPlan /\ [][NextPlan]_vars

----------------------------------------------------------------------------
(* The orchestrator driven by the UI thread, with its worker threads *)

\* the project folders run_simulation is driven on
RunLayouts == {
    { <<"p", "top.v">>, <<"p", "main_tb.v">> },
    {} }

Init ==
    /\ config = Settings(ProjectDir, "auto", IverilogBin, GtkwaveBin)
    /\ \E fs \in RunLayouts : ProjectFs(fs, {}, {}, { IverilogBin, GtkwaveBin })
    /\ call = NoCall
    /\ vcds \in { <<>>, [ v \in { <<"p", "old.vcd">> } |-> 0 ] }
    /\ InitRun

Worker == \E t \in ThreadIds : WorkerSpawn(t) \/ ViewerExits(t) \/ WorkerFinish(t)

Next ==
    \/ RunSimulationBegin
    \/ CompilerExits
    \/ SimulatorExits
    \/ ViewerStage
    \/ CloseGtkwave
    \/ CloseReturns
    \/ Worker

Spec == Init /\ [][Next]_vars

----------------------------------------------------------------------------
(* Properties of run_simulation *)

\* the observable steps of one run, in the order the code takes them
StageOrder == <<"plan", "compile_start", "compile_exit", "snapshot", "simulate_start",
                "simulate_exit", "locate", "config", "viewer_start">>

Position(events, e) == CHOOSE i \in DOMAIN events : events[i] = e

Before(events, a, b) ==
    /\ a \in SeqRange(events)
    /\ b \in SeqRange(events) => Position(events, a) < Position(events, b)

\* the events of the run, the stop of the previous session left aside
StageEvents == SelectSeq(run.events, LAMBDA e : e # "viewer_stop")

IsPrefix(s, t) == Len(s) <= Len(t) /\ \A i \in DOMAIN s : s[i] = t[i]

RunReturned == pc = "idle" /\ ret.op = "run_simulation"

ErrorMessages(messages) == SelectSeq(messages, LAMBDA m : m.type = "error")

LastMessage == ret.messages[Len(ret.messages)]

\* the events a run has behind it when it fails with the given message
EventsAtFailure(key) ==
    CASE key = "msg_compile_error" -> SubSeq(StageOrder, 1, 3)
      [] key = "msg_sim_error" -> SubSeq(StageOrder, 1, 6)
      [] key = "msg_no_vcd" -> SubSeq(StageOrder, 1, 7)
      [] key = "msg_gtkw_config_error" -> SubSeq(StageOrder, 1, 8)
      [] OTHER -> SubSeq(StageOrder, 1, 1)

SessionUntouched ==
    /\ gtkwave_thread = run.session_before
    /\ run.signals = <<>>
    /\ "viewer_stop" \notin SeqRange(run.events)
    /\ "viewer_start" \notin SeqRange(run.events)

\* C1: a run goes through plan, compile, simulate, locate the dump, generate the
\* viewer configuration and refresh the viewer in that fixed order; when a stage
\* fails no later stage runs, the run returns failure at once and its message
\* list ends with the error of the failing stage.
C1_FailFast ==
    /\ IsPrefix(StageEvents, StageOrder)
    /\ run.compile_rc \notin {NoRc, 0} => StageEvents = EventsAtFailure("msg_compile_error")
    /\ run.sim_rc \notin {NoRc, 0} => StageEvents = EventsAtFailure("msg_sim_error")
    /\ RunReturned =>
         /\ ret.messages = run.messages
         /\ ret.success <=> StageEvents = StageOrder
         /\ ~ret.success =>
              /\ Len(ErrorMessages(ret.messages)) = 1
              /\ LastMessage.type = "error"
              /\ StageEvents = EventsAtFailure(LastMessage.message.key)
              /\ run.compile_rc \notin {NoRc, 0} <=> LastMessage.message.key = "msg_compile_error"
              /\ run.sim_rc \notin {NoRc, 0} <=> LastMessage.message.key = "msg_sim_error"
              /\ LastMessage.message.key = "msg_gtkw_config_error" <=>
                   (run.vcd_file # NoPath /\ ~run.generated)
              /\ LastMessage.message.key # "msg_gtkw_config_error" => gtkw = run.gtkw_before
              /\ SessionUntouched

\* a run whose simulator failed after a successful compilation has returned
C1_Witness ==
    /\ RunReturned
    /\ ~ret.success
    /\ run.compile_rc = 0
    /\ run.sim_rc = 2
    /\ run.session_before # NoThread
    /\ isRunning(run.session_before)

\* C2: the simulator is started only after the compiler has exited with code 0,
\* the dump snapshot is taken after compilation and before the simulator starts,
\* the dump is looked for only after the simulator has exited, the configuration
\* is generated only after a dump was located, and the viewer is launched only
\* after the configuration was generated.
C2_StageOrder ==
    /\ "simulate_start" \in SeqRange(run.events) =>
         /\ Before(run.events, "compile_exit", "simulate_start")
         /\ run.compile_rc = 0
         /\ Before(run.events, "compile_exit", "snapshot")
         /\ Before(run.events, "snapshot", "simulate_start")
    /\ "snapshot" \in SeqRange(run.events) => Before(run.events, "compile_exit", "snapshot")
    /\ "locate" \in SeqRange(run.events) =>
         /\ Before(run.events, "simulate_exit", "locate")
         /\ run.sim_rc = 0
    /\ "config" \in SeqRange(run.events) =>
         /\ Before(run.events, "locate", "config")
         /\ run.vcd_file # NoPath
    /\ \A e \in {"viewer_stop", "viewer_start"} :
         e \in SeqRange(run.events) =>
           /\ Before(run.events, "config", e)
           /\ run.generated
    /\ pc = "simulate" => run.events[Len(run.events)] = "simulate_start"
    /\ pc = "viewer" => run.events[Len(run.events)] = "config"

\* the second run has gone through every stage and restarted the viewer
C2_Witness ==
    /\ RunReturned
    /\ ret.success
    /\ nruns = 2
    /\ "viewer_stop" \in SeqRange(run.events)
    /\ run.vcd_file \in DOMAIN vcds

\* C3: at most one viewer subprocess launched by this manager is alive at any
\* time; a new run stops the previous viewer before it spawns the replacement.
C3_SingleViewer == Cardinality(AliveViewers) <= 1

\* C4: when the compiler exits with a non-zero code the run returns failure with
\* a single error message whose data.stderr is the compiler's stderr, and the
\* simulator is never started.
C4_CompileError ==
    run.compile_rc \notin {NoRc, 0} =>
        /\ "simulate_start" \notin SeqRange(run.events)
        /\ pc \notin {"compile", "simulate", "viewer"}
        /\ RunReturned =>
             /\ ~ret.success
             /\ Len(ErrorMessages(ret.messages)) = 1
             /\ LastMessage.type = "error"
             /\ "stderr" \in DOMAIN LastMessage.data
             /\ LastMessage.data.stderr = run.compile_stderr

\* the compiler has failed with a diagnostic on stderr
C4_Witness ==
    /\ RunReturned
    /\ run.compile_rc = 2
    /\ run.compile_stderr # ""
    /\ LastMessage.data.stderr = run.compile_stderr

----------------------------------------------------------------------------
(* Properties of build_compile_plan and discover_project_files *)

IsPlanCall == call.op = "build_compile_plan"

IsDiscoveryCall == call.op = "discover_project_files"

\* the folder and the mode a call works on, after the fallbacks to the settings
CallFolder == IF call.folder # NoPath THEN call.folder ELSE config.verilog_folder

CallMode ==
    IF call.mode # "" THEN call.mode
    ELSE IF IsPlanCall /\ config.project_mode # "" THEN config.project_mode
    ELSE "auto"

FolderInvalid == CallFolder = NoPath \/ CallFolder \notin dirs

CompilerInvalid == config.iverilog_path = NoPath \/ config.iverilog_path \notin files

ViewerInvalid == config.gtkwave_path = NoPath \/ config.gtkwave_path \notin files

\* the call failed with exactly this one popup error and no plan
FailedWith(key) ==
    /\ ~call.result.success
    /\ call.result.plan = NoPlan
    /\ Len(call.result.messages) = 1
    /\ call.result.messages[1].type = "error"
    /\ call.result.messages[1].message.key = key

\* C5: build_compile_plan validates in a fixed order and returns the first
\* failure: the folder, then (with require_tools) the compiler executable, then
\* (with require_tools) the viewer executable, and only then discovery.
C5_ValidationOrder ==
    IsPlanCall =>
        /\ FolderInvalid => FailedWith("msg_folder_invalid")
        /\ (~FolderInvalid /\ call.require_tools /\ CompilerInvalid)
              => FailedWith("msg_iverilog_invalid")
        /\ (~FolderInvalid /\ call.require_tools /\ ~CompilerInvalid /\ ViewerInvalid)
              => FailedWith("msg_gtkwave_invalid")
        /\ (~FolderInvalid /\ (call.require_tools => ~CompilerInvalid /\ ~ViewerInvalid))
              => \/ call.result.success
                 \/ FailedWith("msg_no_sources")
                 \/ FailedWith("msg_multiple_icestudio")
                 \/ FailedWith("msg_no_compile_files")

\* the compiler is missing and the folder holds nothing to compile: the
\* compiler is what gets reported
C5_Witness ==
    /\ IsPlanCall
    /\ call.require_tools
    /\ ~FolderInvalid
    /\ CompilerInvalid
    /\ ViewerInvalid
    /\ glob(CallFolder, V_SUFFIX) = {}
    /\ FailedWith("msg_iverilog_invalid")

\* C6: a successful plan has a non-empty compile_files list and, when
\* require_tools is set, a compiler path and a viewer path that are existing files.
C6_PlanSuccess ==
    (IsPlanCall /\ call.result.success) =>
        /\ call.result.plan # NoPlan
        /\ Len(call.result.plan.compile_files) > 0
        /\ call.require_tools =>
             /\ call.result.plan.iverilog \in files
             /\ call.result.plan.gtkwave \in files

\* a plan was built with require_tools set
C6_Witness ==
    /\ IsPlanCall
    /\ call.result.success
    /\ call.require_tools
    /\ call.result.plan.mode = "generic"
    /\ Len(call.result.plan.compile_files) = 2

TbNamed(f) == EndsWith(NameChars[PathName(f)], TB_SUFFIX)

\* what discovery finds for the folder and mode of the call
Discovered == call.discovery

StrictlySorted(s) == \A i \in 1..(Len(s) - 1) : PathLess(s[i], s[i + 1])

IceBuild == Append(CallFolder, ICE_BUILD_DIR)

\* the non-testbench sources the plan compiles from: those under the narrowed
\* scope in icestudio mode when there are any, the discovered ones otherwise
SourcesInScope(selected_tb) ==
    LET scope == guess_icestudio_scope(CallFolder, selected_tb)
        narrowed == { Resolve(e) : e \in { x \in rglob(scope, V_SUFFIX) : ~TbNamed(x) } }
    IN  IF Discovered.effective_mode = "icestudio" /\ narrowed # {}
        THEN narrowed
        ELSE SeqRange(Discovered.source_files)

\* C7 as stated: the compile_files of a successful plan hold no file that was
\* discovered as a testbench other than the selected one, hold no path twice,
\* are sorted, and are the union of the non-testbench sources in scope and the
\* selected testbench.
C7_NoDiscoveredTestbench ==
    (IsPlanCall /\ call.result.success) =>
        LET plan == call.result.plan
        IN  /\ StrictlySorted(plan.compile_files)
            /\ \A f \in SeqRange(plan.compile_files) :
                 f \in SeqRange(Discovered.tb_files) => f = plan.selected_tb
            /\ SeqRange(plan.compile_files) =
                 { f \in SourcesInScope(plan.selected_tb) : ~TbNamed(f) }
                   \cup ({plan.selected_tb} \ {NoPath})

\* C7: the compile_files of a successful plan hold no path whose file name ends
\* in _tb.v other than the selected testbench, hold no path twice, are sorted,
\* and are the union of the sources in scope whose name does not end in _tb.v
\* and the selected testbench (if any).
C7_CompileFiles ==
    (IsPlanCall /\ call.result.success) =>
        LET plan == call.result.plan
        IN  /\ StrictlySorted(plan.compile_files)
            /\ \A f \in SeqRange(plan.compile_files) : TbNamed(f) => f = plan.selected_tb
            /\ plan.selected_tb # NoPath => plan.selected_tb \in SeqRange(Discovered.tb_files)
            /\ SeqRange(plan.compile_files) =
                 { f \in SourcesInScope(plan.selected_tb) : ~TbNamed(f) }
                   \cup ({plan.selected_tb} \ {NoPath})

\* a plan whose selected testbench is also matched by the source glob, with
\* another testbench left out
C7_Witness ==
    /\ IsPlanCall
    /\ call.result.success
    /\ call.result.plan.selected_tb \in SeqRange(Discovered.source_files)
    /\ \E f \in SeqRange(Discovered.tb_files) :
         /\ f # call.result.plan.selected_tb
         /\ f \notin SeqRange(call.result.plan.compile_files)
    /\ Len(call.result.plan.compile_files) >= 2

\* the subproject directories the non-testbench files of a plan come from
SubprojectsCompiled(plan) ==
    { d \in SubDirs(Append(plan.folder, ICE_BUILD_DIR)) :
        \E f \in SeqRange(plan.compile_files) :
            /\ f # plan.selected_tb
            /\ ~TbNamed(f)
            /\ IsUnder(f, d) }

\* C8: in icestudio mode, when the plan succeeds for a project whose ice-build
\* directory holds more than one subproject directory, the non-testbench files
\* of compile_files do not come from two different subproject directories.
C8_OneSubproject ==
    ( /\ IsPlanCall
      /\ call.result.success
      /\ call.result.plan.mode = "icestudio"
      /\ Cardinality(SubDirs(Append(call.result.plan.folder, ICE_BUILD_DIR))) > 1 )
    => Cardinality(SubprojectsCompiled(call.result.plan)) <= 1

\* the call is made on the project folder in mode auto, the folder and the
\* tools are in order, ice-build holds two subproject directories and the
\* project root holds no source file
TwoSubprojectsAuto ==
    /\ IsPlanCall
    /\ CallFolder = ProjectDir
    /\ CallMode = "auto"
    /\ ~FolderInvalid
    /\ call.require_tools => (~CompilerInvalid /\ ~ViewerInvalid)
    /\ IceBuild \in dirs
    /\ Cardinality(SubDirs(IceBuild)) = 2
    /\ glob(CallFolder, V_SUFFIX) = {}

\* C9 as stated: with two subproject directories under ice-build and no source
\* file in the project root, mode auto fails with the ambiguous-subproject
\* error, whatever the subproject directories hold.
C9_AlwaysAmbiguous == TwoSubprojectsAuto => FailedWith("msg_multiple_icestudio")

\* C9: with two subproject directories under ice-build that hold at least one
\* .v source file between them and no *_tb.v testbench, no main.v directly
\* under ice-build and no source file in the project root, mode auto fails with
\* the ambiguous-subproject error and not with the no-sources error.
C9_Ambiguous ==
    ( /\ TwoSubprojectsAuto
      /\ rglob(IceBuild, V_SUFFIX) # {}
      /\ rglob(IceBuild, TB_SUFFIX) = {}
      /\ Append(IceBuild, "main.v") \notin Entries )
    => FailedWith("msg_multiple_icestudio")

\* both subprojects hold a source file and the call fails as ambiguous
C9_Witness ==
    /\ TwoSubprojectsAuto
    /\ \A d \in SubDirs(IceBuild) : rglob(d, V_SUFFIX) # {}
    /\ rglob(IceBuild, TB_SUFFIX) = {}
    /\ Append(IceBuild, "main.v") \notin Entries
    /\ FailedWith("msg_multiple_icestudio")

\* C10 as stated: preferred_tb is main_tb.v whenever a file of that name is
\* among the discovered testbenches, otherwise the first testbench in sorted
\* order, and none exactly when no testbench was discovered.
C10_AnyMainTb ==
    IsDiscoveryCall =>
        LET tb_files == call.result.tb_files
            named == { f \in SeqRange(tb_files) : PathName(f) = "main_tb.v" }
        IN  /\ named # {} => call.result.preferred_tb \in named
            /\ (named = {} /\ tb_files # <<>>) => call.result.preferred_tb = tb_files[1]
            /\ call.result.preferred_tb = NoPath <=> tb_files = <<>>

\* C10: preferred_tb is the main_tb.v that lies directly in the discovered
\* folder whenever that path is among the discovered testbenches, otherwise
\* the first testbench in sorted order, and none exactly when no testbench was
\* discovered.
C10_PreferredTb ==
    IsDiscoveryCall =>
        LET tb_files == call.result.tb_files
            main_tb == Append(call.folder, "main_tb.v")
        IN  /\ main_tb \in SeqRange(tb_files) => call.result.preferred_tb = main_tb
            /\ (main_tb \notin SeqRange(tb_files) /\ tb_files # <<>>)
                  => call.result.preferred_tb = tb_files[1]
            /\ call.result.preferred_tb = NoPath <=> tb_files = <<>>

\* main_tb.v of the folder is preferred over a testbench that sorts before it
C10_Witness ==
    /\ IsDiscoveryCall
    /\ Len(call.result.tb_files) >= 2
    /\ call.result.preferred_tb = Append(call.folder, "main_tb.v")
    /\ call.result.preferred_tb # call.result.tb_files[1]

----------------------------------------------------------------------------
(* Properties of discover_project_files *)

\* the directory entries the globs of a discovery call match, before they are
\* resolved: the folder's own entries, and in icestudio mode those anywhere
\* under its ice-build directory
RawMatches(suffix) ==
    glob(call.folder, suffix)
      \cup (IF call.result.effective_mode = "icestudio"
            THEN rglob(Append(call.folder, ICE_BUILD_DIR), suffix)
            ELSE {})

\* the physical files behind a set of directory entries
FilesBehind(S) == { IF e \in links THEN LinkTarget[e] ELSE e : e \in S }

Canonical(f) == f \in files /\ f \notin links

\* C11: tb_files and source_files of discover_project_files are sorted lists,
\* without duplicates, of canonical paths: a file reached through two path
\* spellings appears once, and the lengths are the numbers of distinct files,
\* not the raw glob counts.
C11_SortedUnique ==
    IsDiscoveryCall =>
        /\ StrictlySorted(call.result.tb_files)
        /\ StrictlySorted(call.result.source_files)
        /\ \A f \in SeqRange(call.result.tb_files) \cup SeqRange(call.result.source_files) :
             Canonical(f)
        /\ SeqRange(call.result.tb_files) = FilesBehind(RawMatches(TB_SUFFIX))
        /\ SeqRange(call.result.source_files) = FilesBehind(RawMatches(V_SUFFIX))
        /\ Len(call.result.tb_files) = Cardinality(FilesBehind(RawMatches(TB_SUFFIX)))
        /\ Len(call.result.source_files) = Cardinality(FilesBehind(RawMatches(V_SUFFIX)))

\* a file is matched under two spellings, its own and a symlink's, and is
\* returned once
C11_Witness ==
    /\ IsDiscoveryCall
    /\ \E l \in links : {l, LinkTarget[l]} \subseteq RawMatches(V_SUFFIX)
    /\ Cardinality(RawMatches(V_SUFFIX)) > Len(call.result.source_files)
    /\ Len(call.result.source_files) >= 2

ConcreteModes == { "icestudio", "generic" }

\* the paths a discovery result names
DiscoveryPaths(d) == SeqRange(d.tb_files) \cup SeqRange(d.source_files)

\* C12: the effective mode of a discovery and the mode of a plan are never
\* "auto": "auto" or an empty mode gives "icestudio" exactly when ice-build is a
\* directory directly under the folder and "generic" otherwise, an explicit
\* "icestudio" or "generic" is kept; generic mode scans the folder's own entries
\* only, icestudio mode also everything under ice-build.
C12_EffectiveMode ==
    /\ IsDiscoveryCall =>
         LET d == call.result
             ice_build == Append(call.folder, ICE_BUILD_DIR)
         IN  /\ d.effective_mode \in ConcreteModes
             /\ call.mode \in {"", "auto"} =>
                  (d.effective_mode = "icestudio" <=> ice_build \in dirs)
             /\ call.mode \in ConcreteModes => d.effective_mode = call.mode
             /\ d.effective_mode = "generic" =>
                  /\ SeqRange(d.source_files) = FilesBehind(glob(call.folder, V_SUFFIX))
                  /\ SeqRange(d.tb_files) = FilesBehind(glob(call.folder, TB_SUFFIX))
             /\ d.effective_mode = "icestudio" =>
                  /\ SeqRange(d.source_files) =
                       FilesBehind(glob(call.folder, V_SUFFIX) \cup rglob(ice_build, V_SUFFIX))
                  /\ SeqRange(d.tb_files) =
                       FilesBehind(glob(call.folder, TB_SUFFIX) \cup rglob(ice_build, TB_SUFFIX))
    /\ (IsPlanCall /\ call.result.success) =>
         /\ call.result.plan.mode \in ConcreteModes
         /\ CallMode = "auto" => (call.result.plan.mode = "icestudio" <=> IceBuild \in dirs)
         /\ CallMode \in ConcreteModes => call.result.plan.mode = CallMode

\* mode auto on a folder with an ice-build directory: the sources under
\* ice-build are found
C12_Witness ==
    /\ IsDiscoveryCall
    /\ call.mode = "auto"
    /\ call.result.effective_mode = "icestudio"
    /\ \E f \in DiscoveryPaths(call.result) : IsUnder(f, Append(call.folder, ICE_BUILD_DIR))

----------------------------------------------------------------------------
(* Properties of close_gtkwave *)

\* no viewer session is active: none is tracked, or the tracked thread is not
\* running
NoSessionActive ==
    \/ gtkwave_thread = NoThread
    \/ threads[gtkwave_thread].phase \notin {"started", "running"}

CloseReturned == pc = "idle" /\ ret.op = "close_gtkwave"

\* a step in which close_gtkwave is called or returns
CloseStep ==
    \/ pc = "idle" /\ pc' = "close_wait"
    \/ pc = "close_wait" /\ pc' = "idle"
    \/ pc = "idle" /\ pc' = "idle" /\ ret' # ret /\ ret'.op = "close_gtkwave"

\* C14: close_gtkwave with no active session is a no-op: it returns at once
\* with an empty message list and leaves the session state as it was; after any
\* close_gtkwave has returned no session is active, so a second call in a row
\* changes nothing.
C14_Idempotent ==
    [][ /\ (CloseStep /\ pc = "idle" /\ NoSessionActive) =>
            /\ pc' = "idle"
            /\ ret' = [op |-> "close_gtkwave", success |-> TRUE, messages |-> <<>>]
            /\ UNCHANGED <<gtkwave_thread, threads, gtkw, vcds, run, closing>>
        /\ (CloseStep /\ pc' = "idle") => NoSessionActive'
        /\ (pc = "idle" /\ ret.op = "close_gtkwave" /\ UNCHANGED <<pc, ret>>) =>
            (NoSessionActive /\ NoSessionActive')
      ]_vars

\* close_gtkwave has returned from a call made with no session ever started
C14_Witness ==
    /\ CloseReturned
    /\ ret.messages = <<>>
    /\ gtkwave_thread = NoThread
    /\ \A t \in ThreadIds : threads[t].phase = "new"

\* C15: close_gtkwave returns success in every case and only log messages,
\* also when the kill of the viewer failed; a viewer that could not be
\* terminated on restart does not make the run fail nor add an error message.
C15_CleanupNeverFails ==
    /\ CloseReturned =>
         /\ ret.success
         /\ \A i \in DOMAIN ret.messages : ret.messages[i].type = "log"
    /\ \A i \in DOMAIN closing : closing[i].type = "log"
    /\ (RunReturned /\ "viewer_stop" \in SeqRange(run.events)) =>
         /\ ret.success
         /\ ErrorMessages(ret.messages) = <<>>
         /\ "viewer_start" \in SeqRange(run.events)

\* close_gtkwave has returned although the kill timed out, after a run whose
\* restart could not terminate the previous viewer either
C15_Witness ==
    /\ CloseReturned
    /\ \E i \in DOMAIN ret.messages : ret.messages[i].message.key = "msg_gtkw_close_error"
    /\ run.signals = <<"terminate", "kill">>
    /\ threads[run.session_before].proc = "alive"
    /\ ErrorMessages(run.messages) = <<>>

\* C16: close_gtkwave always returns: it never waits without bound for a
\* worker thread whose viewer subprocess has not exited, be it that the viewer
\* outlived the kill or that the worker has not spawned it yet.
C16_CloseReturns ==
    pc = "close_wait" => threads[gtkwave_thread].proc = "exited"

----------------------------------------------------------------------------
(* Failures of run_simulation *)

\* C17: every failure of run_simulation is a structured result, success=false
\* with an error message, never an exception that leaves it; a dump file that
\* cannot be parsed or a configuration path that cannot be written gives the
\* configuration error message.
C17_StructuredFailure ==
    /\ pc # "raised"
    /\ ret.op # "run_simulation_raised"
    /\ (RunReturned /\ ~ret.success) =>
         /\ ret.messages # <<>>
         /\ LastMessage.type = "error"

\* the last-used fields and the recent projects of the settings
LastUsed(cfg) ==
    <<cfg.verilog_folder, cfg.project_mode, cfg.selected_tb, cfg.recent_projects>>

\* C18: the last-used fields verilog_folder, project_mode and selected_tb and
\* the recent-projects list are written by a simulation run only when
\* run_simulation returned success; a failed run leaves them as they were.
C18_SettingsOnSuccess ==
    /\ pc \in {"compile", "simulate", "viewer", "raised"} =>
         LastUsed(config) = LastUsed(run.settings_before)
    /\ RunReturned =>
         IF ret.success
         THEN /\ config.verilog_folder = run.ui.folder
              /\ config.project_mode = run.ui.mode
              /\ config.selected_tb = run.ui.tb_file
              /\ run.ui.folder # NoPath =>
                   /\ config.recent_projects # <<>>
                   /\ config.recent_projects[1] = run.ui.folder
              /\ run.ui.folder = NoPath =>
                   config.recent_projects = run.settings_before.recent_projects
         ELSE LastUsed(config) = LastUsed(run.settings_before)
    /\ config.iverilog_path = IverilogBin
    /\ config.gtkwave_path = GtkwaveBin

\* a run failed after an earlier run had stored other settings than those the
\* failed run was started with
C18_Witness ==
    /\ RunReturned
    /\ ~ret.success
    /\ run.compile_rc = 2
    /\ run.ui.mode # config.project_mode
    /\ run.ui.folder # config.verilog_folder
    /\ config.recent_projects # <<>>

----------------------------------------------------------------------------
(* The dump file run_simulation locates after the simulator has run *)

\* the dump files a folder can hold, with their modification times
DumpStates == UNION { [ S -> 0..MaxMtime ] : S \in SUBSET VcdSlots }

InitVcd ==
    /\ config = Settings(ProjectDir, "auto", IverilogBin, GtkwaveBin)
    /\ ProjectFs({}, {}, {}, { IverilogBin, GtkwaveBin })
    /\ call = NoCall
    /\ vcds \in DumpStates
    /\ InitRun

\* lines 380-392: the snapshot is taken, then the simulator runs in the folder and
\* dump files are created, rewritten, removed or left alone
SimulatorRuns ==
    /\ pc = "idle"
    /\ call = NoCall
    /\ run' = take_snapshot([run EXCEPT !.folder = ProjectDir], vcds)
    /\ vcds' \in DumpStates
    /\ pc' = "simulate"
    /\ UNCHANGED <<planVars, clock, gtkw, gtkwave_thread, threads, closing, nruns, ret>>

\* lines 405-414
LocateDump ==
    /\ pc = "simulate"
    /\ call = NoCall
    /\ call' = [ op |-> "locate_dump", folder |-> run.folder,
                 result |-> locate_dump(run.folder, run.snapshot, vcds) ]
    /\ pc' = "idle"
    /\ UNCHANGED <<fsVars, config, vcds, clock, gtkw, gtkwave_thread, threads, run,
                   closing, nruns, ret>>

NextVcd == SimulatorRuns \/ LocateDump

SpecVcd == InitVcd /\ [][NextVcd]_vars

IsLocateCall == call.op = "locate_dump"

\* the dump files that are absent from the snapshot or strictly newer than in it
FreshDumps ==
    { v \in DOMAIN vcds : v \notin DOMAIN run.snapshot \/ vcds[v] > run.snapshot[v] }

\* the most recently modified dump files of S
MostRecent(S) == { v \in S : \A w \in S : vcds[w] <= vcds[v] }

\* C19: after the simulator has run, the dump file is the most recently modified
\* of the dump files absent from the snapshot or strictly newer than in it when
\* there is one, else the most recently modified of all dump files when there is
\* one, else none and the run fails with the no-dump error; a dump file whose
\* modification time equals the snapshot's is never taken as fresh
C19_FindRecentVcd ==
    IsLocateCall =>
        LET found == call.result.found
            failure == call.result.failure
        IN  /\ FreshDumps # {} => found = MostRecent(FreshDumps) /\ found # {}
            /\ FreshDumps = {} /\ DOMAIN vcds # {} =>
                   found = MostRecent(DOMAIN vcds) /\ found # {}
            /\ DOMAIN vcds = {} => found = {} /\ failure = <<ErrorPopup("msg_no_vcd")>>
            /\ found # {} => failure = <<>>
            /\ \A v \in found :
                   v \in DOMAIN run.snapshot /\ vcds[v] = run.snapshot[v] => FreshDumps = {}

\* two fresh dump files of different ages next to an unchanged one that is newer
\* than both: the newer of the fresh ones is taken
C19_Witness ==
    /\ IsLocateCall
    /\ \E a, b \in FreshDumps : vcds[a] < vcds[b] /\ call.result.found = {b}
    /\ \E c \in DOMAIN vcds \ FreshDumps :
           /\ vcds[c] = run.snapshot[c]
           /\ \A v \in FreshDumps : vcds[v] < vcds[c]

----------------------------------------------------------------------------
(* The signals create_gtkw_config writes to the viewer configuration *)

VarTypes == { "reg", "wire", "integer" }

\* the signals a dump file can declare: one name each, or two names for one net
SignalPool ==
    { [ var_type |-> t, references |-> <<n>> ] : t \in VarTypes, n \in SignalNames }
    \cup { [ var_type |-> "wire", references |-> <<"tb.q", "top.x">> ],
           [ var_type |-> "reg", references |-> <<"tb.clk", "tb.v1a2b3c">> ] }

RECURSIVE SetsUpTo(_, _)
\* the subsets of P of at most n elements
SetsUpTo(P, n) ==
    IF n = 0 THEN { {} }
    ELSE LET smaller == SetsUpTo(P, n - 1)
         IN  smaller \cup { S \cup {x} : S \in smaller, x \in P }

DumpContents == SetsUpTo(SignalPool, MaxSignals)

TbTops == { NoTop } \cup DOMAIN ModuleChars

SimulationVcd == <<"p", "simulation.vcd">>

InitGtkw ==
    /\ config = Settings(ProjectDir, "auto", IverilogBin, GtkwaveBin)
    /\ ProjectFs({}, {}, {}, { IverilogBin, GtkwaveBin })
    /\ call = NoCall
    /\ vcds \in { <<>>, [ v \in {SimulationVcd} |-> 0 ] }
    /\ InitRun

\* create_gtkw_config is called on a dump file and a top module name
CreateGtkwConfig ==
    /\ call = NoCall
    /\ \E data \in DumpContents, tb_top \in TbTops :
         LET gtkw_path == gtkw_config_of(ProjectDir)
             made == create_gtkw_config(SimulationVcd, gtkw_path, ScreenSize, tb_top,
                                        vcds, gtkw, "none", data)
         IN  /\ call' = [ op |-> "create_gtkw_config", data |-> data, tb_top |-> tb_top,
                          generated |-> made.generated,
                          lines |-> IF made.generated THEN made.file[gtkw_path]
                                    ELSE <<>> ]
             /\ gtkw' = made.file
    /\ UNCHANGED <<fsVars, config, vcds, clock, gtkwave_thread, threads, pc, run,
                   closing, nruns, ret>>

NextGtkw == CreateGtkwConfig

SpecGtkw == InitGtkw /\ [][NextGtkw]_vars

IsConfigCall == call.op = "create_gtkw_config"

\* the signal names of the written configuration, after its two header lines
WrittenNames == { call.lines[i][1] : i \in 3..Len(call.lines) }

\* the names of the dump file that neither contain DURATION nor match the pattern
Surviving ==
    { n \in UNION { SeqRange(signal.references) : signal \in call.data } :
        /\ ~Contains(SignalChars[n], DURATION)
        /\ ~exclude_pattern(SignalChars[n]) }

\* the surviving names of the reg and wire signals
RegWire ==
    { n \in Surviving :
        \E signal \in call.data :
            signal.var_type \in {"reg", "wire"} /\ n \in SeqRange(signal.references) }

\* those of them under the top module, when one is known
Scoped ==
    IF call.tb_top = NoTop THEN {}
    ELSE { n \in RegWire :
             StartsWith(SignalChars[n], ModuleChars[call.tb_top] \o <<DOT>>) }

\* C20: the signals written are the reg and wire signals named "<tb_top>...."
\* when a top module is known and there are such signals, else all reg and wire
\* signals when there are any, else every surviving name whatever its type; no
\* written name contains DURATION or matches the generated-identifier pattern
C20_SignalSelection ==
    IsConfigCall /\ call.generated =>
        /\ WrittenNames = IF Scoped # {} THEN Scoped
                          ELSE IF RegWire # {} THEN RegWire
                          ELSE Surviving
        /\ \A n \in WrittenNames :
               ~Contains(SignalChars[n], DURATION) /\ ~exclude_pattern(SignalChars[n])

\* a reg under the top module is written, a wire outside of it is not, and a
\* generated identifier that shares the reg's net is dropped
C20_Witness ==
    /\ IsConfigCall
    /\ call.generated
    /\ call.tb_top = "tb"
    /\ [ var_type |-> "wire", references |-> <<"top.x">> ] \in call.data
    /\ [ var_type |-> "reg", references |-> <<"tb.clk", "tb.v1a2b3c">> ] \in call.data
    /\ WrittenNames = {"tb.clk"}

\* the names of S that a signal of the given type declares
DeclaredAs(S, type) ==
    { n \in S : \E signal \in call.data :
                   signal.var_type = type /\ n \in SeqRange(signal.references) }

\* the state-holding and the combinational names the call has to write
ExpectedRegs ==
    IF Scoped # {} THEN DeclaredAs(Scoped, "reg") ELSE DeclaredAs(RegWire, "reg")

ExpectedWires ==
    IF Scoped # {} THEN DeclaredAs(Scoped, "wire")
    ELSE IF RegWire # {} THEN DeclaredAs(RegWire, "wire")
    ELSE Surviving

\* lines from..to of the written file hold one name each, in ascending order
SortedBlock(from, to) ==
    /\ \A i \in from..to : Len(call.lines[i]) = 1
    /\ \A i \in from..(to - 1) :
           StrLess(SignalChars[call.lines[i][1]], SignalChars[call.lines[i + 1][1]])

\* C21: the written file is the dump-file line, the size line, the selected reg
\* names in sorted order and then the selected wire names in sorted order, one
\* name per line, the reg block wholly before the wire block; when the dump
\* file does not exist the call returns false and no file is written
C21_FileLayout ==
    IsConfigCall =>
        IF SimulationVcd \in DOMAIN vcds
        THEN LET lines == call.lines
                 regs_end == 2 + Cardinality(ExpectedRegs)
             IN  /\ call.generated
                 /\ DOMAIN gtkw = { gtkw_config_of(ProjectDir) }
                 /\ gtkw[gtkw_config_of(ProjectDir)] = lines
                 /\ Len(lines) = regs_end + Cardinality(ExpectedWires)
                 /\ lines[1] = <<"[dumpfile]", "simulation.vcd">>
                 /\ lines[2] = <<"[size]", ScreenSize[1], ScreenSize[2]>>
                 /\ SortedBlock(3, regs_end)
                 /\ { lines[i][1] : i \in 3..regs_end } = ExpectedRegs
                 /\ SortedBlock(regs_end + 1, Len(lines))
                 /\ { lines[i][1] : i \in (regs_end + 1)..Len(lines) } = ExpectedWires
        ELSE /\ ~call.generated
             /\ gtkw = NoFile

\* a reg has been written before two wires, the first of which sorts before it
C21_Witness ==
    /\ IsConfigCall
    /\ call.generated
    /\ call.tb_top = NoTop
    /\ call.lines = << <<"[dumpfile]", "simulation.vcd">>,
                       <<"[size]", ScreenSize[1], ScreenSize[2]>>,
                       <<"tb.wx">>, <<"tb.q">>, <<"top.x">> >>

----------------------------------------------------------------------------
(* Further properties of build_compile_plan *)

\* C22: the selected testbench of a successful plan is the requested testbench
\* when that path is among the discovered testbench files and the preferred
\* testbench otherwise; it is none or one of the discovered testbench files
C22_SelectedTb ==
    IsPlanCall /\ call.result.success =>
        LET tb_files == SeqRange(Discovered.tb_files)
            selected_tb == call.result.plan.selected_tb
        IN  /\ call.tb_file \in tb_files => selected_tb = call.tb_file
            /\ call.tb_file \notin tb_files => selected_tb = Discovered.preferred_tb
            /\ selected_tb = NoPath \/ selected_tb \in tb_files

\* the requested testbench is selected although another one is preferred
C22_Witness ==
    /\ IsPlanCall
    /\ call.result.success
    /\ call.tb_file \in SeqRange(Discovered.tb_files)
    /\ Discovered.preferred_tb # call.tb_file
    /\ call.result.plan.selected_tb = call.tb_file

\* the testbench line 273 selects from a discovery
SelectedFrom(discovery) ==
    IF call.tb_file \in SeqRange(discovery.tb_files) THEN call.tb_file
    ELSE discovery.preferred_tb

\* the scope directory of a selected testbench by the stated precedence
ExpectedScope(selected_tb) ==
    IF selected_tb # NoPath /\ IsUnder(Resolve(selected_tb), IceBuild)
    THEN PathParent(Resolve(selected_tb))
    ELSE IF Cardinality(SubDirs(IceBuild)) = 1
    THEN CHOOSE d \in SubDirs(IceBuild) : TRUE
    ELSE IF Append(IceBuild, "main.v") \in Entries /\ Resolve(Append(IceBuild, "main.v")) \in files
    THEN IceBuild
    ELSE CallFolder

\* the call is one of build_compile_plan in icestudio mode that got past the
\* validation of the folder and the tools and the two no-sources checks
ReachedScope(discovery) ==
    /\ discovery.source_files # <<>>
    /\ discovery.effective_mode = "icestudio"

\* a call of build_compile_plan on a valid folder with valid tools
ValidatedPlanCall ==
    /\ IsPlanCall
    /\ ~FolderInvalid
    /\ call.require_tools => (~CompilerInvalid /\ ~ViewerInvalid)

\* C23: in icestudio mode the scope directory is the parent directory of the
\* selected testbench when that lies inside ice-build, else the only
\* subproject directory of ice-build, else ice-build when main.v lies directly
\* in it, else the project folder; when it is the project folder and ice-build
\* holds more than one subproject directory the plan fails with the
\* multiple-subprojects error, and only then
C23_ScopePrecedence ==
    ValidatedPlanCall =>
        LET discovery == Discovered
            expected == ExpectedScope(SelectedFrom(discovery))
        IN  ReachedScope(discovery) =>
                /\ guess_icestudio_scope(CallFolder, SelectedFrom(discovery)) = expected
                /\ FailedWith("msg_multiple_icestudio")
                     <=> (expected = CallFolder /\ Cardinality(SubDirs(IceBuild)) > 1)

\* the only subproject directory is the scope although main.v lies in ice-build
\* and a testbench outside of ice-build is selected
C23_Witness ==
    /\ ValidatedPlanCall
    /\ call.result.success
    /\ Append(IceBuild, "main.v") \in files
    /\ Cardinality(SubDirs(IceBuild)) = 1
    /\ LET discovery == Discovered
           selected_tb == SelectedFrom(discovery)
       IN  /\ ReachedScope(discovery)
           /\ selected_tb # NoPath
           /\ ~IsUnder(selected_tb, IceBuild)
           /\ ExpectedScope(selected_tb) \in SubDirs(IceBuild)

\* lines 289-293: the files behind the .v entries under the scope directory of
\* a plan whose names do not end in _tb.v
Narrowed(plan) ==
    { Resolve(e) : e \in { x \in rglob(guess_icestudio_scope(CallFolder, plan.selected_tb),
                                      V_SUFFIX) : ~TbNamed(x) } }

\* lines 297-301: what is compiled from a set of source files
CompiledFrom(sources, plan) ==
    { f \in sources : ~TbNamed(f) } \cup ({plan.selected_tb} \ {NoPath})

\* C24: in icestudio mode a successful plan compiles from the discovered source
\* files when the narrowed scope holds no non-testbench source file, and from
\* the files of the narrowed scope alone when it holds some
C24_NarrowedSources ==
    ( /\ IsPlanCall
      /\ call.result.success
      /\ call.result.plan.mode = "icestudio" )
    => LET plan == call.result.plan
           narrowed == Narrowed(plan)
       IN  /\ narrowed = {} =>
                 SeqRange(plan.compile_files)
                   = CompiledFrom(SeqRange(Discovered.source_files), plan)
           /\ narrowed # {} =>
                 SeqRange(plan.compile_files) = CompiledFrom(narrowed, plan)

\* the scope is a subproject directory that holds only the selected testbench:
\* the source file of the project root is compiled with it
C24_Witness ==
    /\ IsPlanCall
    /\ call.result.success
    /\ call.result.plan.mode = "icestudio"
    /\ Narrowed(call.result.plan) = {}
    /\ guess_icestudio_scope(CallFolder, call.result.plan.selected_tb) # CallFolder
    /\ \E f \in SeqRange(Discovered.source_files) :
           /\ ~TbNamed(f)
           /\ PathParent(f) = CallFolder
           /\ f \in SeqRange(call.result.plan.compile_files)

----------------------------------------------------------------------------
(* The viewer stage of run_simulation *)

\* the messages of a list that carry the given text key
Keyed(messages, key) == SelectSeq(messages, LAMBDA m : m.message.key = key)

\* C25: the step that ends the viewer stage returns success with a new viewer
\* thread started and not waited for; when the previous session was running
\* it has announced the update and sent the old viewer terminate, and kill
\* after that at most, before it returned, whatever the old viewer did with
\* them; when no session was running it has sent nothing, announced no update
\* and left the other threads alone
C25_ViewerStageReturns ==
    [][ (pc = "viewer" /\ pc' # "viewer") =>
          /\ pc' = "idle"
          /\ ret'.op = "run_simulation"
          /\ ret'.success
          /\ gtkwave_thread' # gtkwave_thread
          /\ threads[gtkwave_thread'].phase = "new"
          /\ threads'[gtkwave_thread'] =
                 [ phase |-> "started", proc |-> "none", command |-> gtkwave_cmd_of(run) ]
          /\ IF gtkwave_thread # NoThread /\ isRunning(gtkwave_thread)
             THEN /\ Len(Keyed(ret'.messages, "msg_sim_updated")) = 1
                  /\ run'.signals \in { <<>>, <<"terminate">>, <<"terminate", "kill">> }
                  /\ run'.signals = <<>> <=> threads[gtkwave_thread].proc = "none"
                  /\ threads'[gtkwave_thread].proc \in { threads[gtkwave_thread].proc, "exited" }
             ELSE /\ Keyed(ret'.messages, "msg_sim_updated") = <<>>
                  /\ run'.signals = <<>>
                  /\ \A t \in ThreadIds \ {gtkwave_thread'} : threads'[t] = threads[t]
      ]_vars

\* a run has returned with its viewer started while the viewer of the run
\* before, which was sent terminate and kill, is still alive
C25_Witness ==
    /\ RunReturned
    /\ ret.success
    /\ run.session_before # NoThread
    /\ run.signals = <<"terminate", "kill">>
    /\ threads[run.session_before].proc = "alive"
    /\ gtkwave_thread # run.session_before
    /\ threads[gtkwave_thread].phase = "started"

\* the sessions whose handle the orchestrator has dropped or replaced
DroppedSessions == { t \in ThreadIds : threads[t].phase # "new" /\ t # gtkwave_thread }

\* C26: the viewer subprocess of a session whose handle the orchestrator
\* dropped or replaced is not alive and is not going to be spawned
C26_NoUntrackedViewer ==
    \A t \in DroppedSessions :
        /\ threads[t].proc # "alive"
        /\ threads[t].phase # "started"

----------------------------------------------------------------------------
(* The viewer session across failing runs *)

\* the last call of run_simulation is in progress, has raised or has returned
\* and nothing was called since
RunCurrent == pc \in {"compile", "simulate", "viewer", "raised"} \/ RunReturned

\* a stage of that call has failed
StageFailed ==
    \/ RunReturned /\ ~ret.success
    \/ pc = "raised"
    \/ run.compile_rc \notin {NoRc, 0}
    \/ run.sim_rc \notin {NoRc, 0}

\* C27: a call of run_simulation in which a stage fails (the plan, the
\* compiler, the simulator, the search for the dump file or the generation of
\* the configuration) tracks the session it tracked when it was called, has
\* sent no signal to a viewer and has neither stopped nor started a viewer
C27_FailedRunKeepsSession ==
    (RunCurrent /\ StageFailed) =>
        /\ gtkwave_thread = run.session_before
        /\ run.signals = <<>>
        /\ "viewer_stop" \notin SeqRange(run.events)
        /\ "viewer_start" \notin SeqRange(run.events)
        /\ pc # "viewer"

\* a run has failed to generate the configuration while the viewer of the run
\* before is alive and still the tracked one
C27_Witness ==
    /\ RunReturned
    /\ ~ret.success
    /\ LastMessage.message.key = "msg_gtkw_config_error"
    /\ run.session_before # NoThread
    /\ gtkwave_thread = run.session_before
    /\ threads[gtkwave_thread].proc = "alive"

----------------------------------------------------------------------------
(* The results of build_compile_plan and run_simulation *)

\* a result fails exactly when its messages hold an error; a failing result
\* holds one error, as its last message; every message has a level of MessageType
WellFormedResult(success, messages) ==
    /\ ~success <=> ErrorMessages(messages) # <<>>
    /\ ~success =>
         /\ Len(ErrorMessages(messages)) = 1
         /\ messages[Len(messages)].type = "error"
    /\ \A i \in DOMAIN messages : messages[i].type \in MessageTypes

\* C28: every result of build_compile_plan and of run_simulation fails exactly
\* when its message list holds an error-level message, a failing result holds
\* exactly one, as its last message, and every message's level is error,
\* warning, success or log
C28_ResultShape ==
    /\ IsPlanCall => WellFormedResult(call.result.success, call.result.messages)
    /\ RunReturned => WellFormedResult(ret.success, ret.messages)

\* a run has failed in the simulator after its plan succeeded without a
\* message: the result holds the log messages of the stages and then the error
C28_Witness ==
    /\ IsPlanCall
    /\ call.result.success
    /\ call.result.messages = <<>>
    /\ RunReturned
    /\ ~ret.success
    /\ Len(ret.messages) >= 3
    /\ LastMessage.message.key = "msg_sim_error"

----------------------------------------------------------------------------
(* The list of recent projects: push_recent called again and again *)

MaxRecent == 3

\* the limits a caller passes for a key (add_recent_project passes RecentLimit)
Limits == 1 .. MaxRecent

\* the spellings of folders the window hands to add_recent_project: the text
\* of the folder entry, absolute or not, and the empty text
RecentItems == {
    NoPath, ProjectDir, MissingDir, <<"h", "w">>, <<"p", "sub">>,
    <<HOME, "w">>, <<CURDIR, "sub">>, <<"p", PARDIR, "nx">> }

RECURSIVE ListsUpTo(_, _)
\* the duplicate-free lists of at most n of the paths P
ListsUpTo(P, n) ==
    IF n = 0 THEN { <<>> }
    ELSE { <<>> } \cup
         UNION { { <<x>> \o l : l \in ListsUpTo(P \ {x}, n - 1) } : x \in P }

\* the lists push_recent saves under a limit: normalised paths, no duplicates
StoredLists(limit) ==
    ListsUpTo({ normalize_path(i) : i \in RecentItems \ {NoPath} }, limit)

InitRecent ==
    /\ ProjectFs({}, {}, {}, { IverilogBin, GtkwaveBin })
    /\ \E limit \in Limits : \E stored \in StoredLists(limit) :
         /\ config = [ Settings(ProjectDir, "auto", IverilogBin, GtkwaveBin)
                         EXCEPT !.recent_projects = stored ]
         /\ call = [ op |-> "get_list", limit |-> limit, item |-> NoPath,
                     before |-> stored, pushed |-> NoPath ]
    /\ vcds = <<>>
    /\ InitRun

\* add_recent_project lines 678-682: push_recent on the key with its limit;
\* the call record keeps the item, the list found and the last item that was
\* not empty
PushRecent ==
    /\ \E item \in RecentItems :
         /\ config' = [config EXCEPT !.recent_projects = push_recent(@, item, call.limit)]
         /\ call' = [ op |-> "push_recent", limit |-> call.limit, item |-> item,
                      before |-> config.recent_projects,
                      pushed |-> IF item = NoPath THEN call.pushed ELSE item ]
    /\ UNCHANGED <<fsVars, runVars>>

NextRecent == PushRecent

SpecRecent == InitRecent /\ [][NextRecent]_vars

Recent == config.recent_projects

IsPush == call.op = "push_recent"

NoDuplicates(items) ==
    \A i, j \in DOMAIN items : items[i] = items[j] => i = j

Without(items, entry) == SelectSeq(items, LAMBDA i : i # entry)

\* what every reading of the claim shares: no duplicates, at most limit
\* entries, and an empty item changes nothing
ListDiscipline ==
    /\ NoDuplicates(Recent)
    /\ Len(Recent) <= call.limit
    /\ (IsPush /\ call.item = NoPath) => Recent = call.before

----------------------------------------------------------------------------
(* Saving the testbench: save_tb_file step by step, with a crash at any step *)

\* line endings, and os.linesep of the platform (POSIX)
LF == "\n"
CRLF == "\r\n"
LINESEP == LF

\* what a file holds: lines with one line ending, wholly or partly written
Content(text, newline) == [ text |-> text, newline |-> newline, written |-> "all" ]
Partial(content) == [ content EXCEPT !.written = "part" ]
Empty == [ text |-> "", newline |-> LF, written |-> "all" ]

\* open(path, "r", encoding="utf-8").read(): universal newlines, every line
\* ending is read as "\n"
read_text(content) == [ text |-> content.text, newline |-> LF ]

\* original_content before line 975 has assigned it
Unbound == read_text(Empty)

\* open(path, "w", encoding="utf-8").write(s): "\n" is written as os.linesep
write_text(s) == Content(s.text, IF s.newline = LF THEN LINESEP ELSE s.newline)

TbFile == <<"p", "main_tb.v">>
backup_file_of(target_file) ==
    Append(PathParent(target_file), "main_tb.v.bak")
temp_file_of(target_file) ==
    Append(PathParent(target_file), "main_tb.v.tmp")

\* what the editor may hold and what the testbench may hold on the disk
EditorTexts == { [ text |-> t, newline |-> LF ] : t \in { "v2", "v3" } }
SavedContents == { Content(t, n) : t \in { "v1", "v2" }, n \in { LF, CRLF } }

\* the files of an earlier save: the backup it made, the temporary file a
\* crash left behind
StaleFiles ==
    { f \in [ { backup_file_of(TbFile), temp_file_of(TbFile) }
                -> { Empty, Content("v0", LF), Partial(Content("v1", LF)) } ] :
        f[backup_file_of(TbFile)].written = "all" }

Restrict(f, S) == [ x \in S |-> f[x] ]
Put(f, path, content) ==
    [ x \in DOMAIN f \cup {path} |-> IF x = path THEN content ELSE f[x] ]
Drop(f, path) == Restrict(f, DOMAIN f \ {path})

\* the window with a testbench loaded (or none) and text in the editor
InitSave ==
    /\ dirs = FixedDirs
    /\ links = {}
    /\ \E stale \in StaleFiles :
       \E kept \in SUBSET DOMAIN stale :
       \E saved \in SavedContents, exists \in BOOLEAN :
         contents = IF exists THEN Put(Restrict(stale, kept), TbFile, saved)
                    ELSE Restrict(stale, kept)
    /\ files = { IverilogBin, GtkwaveBin } \cup DOMAIN contents
    /\ config = Settings(ProjectDir, "auto", IverilogBin, GtkwaveBin)
    /\ \E current_tb_file \in { NoPath, TbFile }, text \in EditorTexts :
         call = [ op |-> "editor", step |-> "idle",
                  current_tb_file |-> current_tb_file, text |-> text,
                  before |-> contents, original_content |-> Unbound ]
    /\ vcds = <<>>
    /\ InitRun

Saving(step) == call.op = "save_tb_file" /\ call.step = step

GoTo(step) == call' = [call EXCEPT !.step = step]

WriteFile(path, content) ==
    /\ contents' = Put(contents, path, content)
    /\ files' = files \cup {path}
    /\ UNCHANGED <<dirs, links>>

\* lines 965-975: nothing without a current testbench; the file is read when
\* it exists
SaveTbFile ==
    /\ call.op = "editor"
    /\ call' = [call EXCEPT
                  !.op = "save_tb_file",
                  !.before = contents,
                  !.step = IF call.current_tb_file = NoPath THEN "returned"
                           ELSE IF call.current_tb_file \in DOMAIN contents THEN "read"
                           ELSE "no_backup",
                  !.original_content =
                      IF call.current_tb_file \in DOMAIN contents
                      THEN read_text(contents[call.current_tb_file])
                      ELSE Unbound]
    /\ UNCHANGED <<fsVars, config, runVars>>

\* line 976: open(backup_file, "w") creates or empties the backup
OpenBackup ==
    /\ Saving("read")
    /\ WriteFile(backup_file_of(call.current_tb_file), Empty)
    /\ GoTo("backup_open")
    /\ UNCHANGED <<config, runVars>>

\* line 977: a part of the text may reach the file before it is closed
FlushBackup ==
    /\ Saving("backup_open")
    /\ WriteFile(backup_file_of(call.current_tb_file),
                 Partial(write_text(call.original_content)))
    /\ GoTo("backup_part")
    /\ UNCHANGED <<config, runVars>>

\* leaving the `with` of line 976: the backup holds what was written
CloseBackup ==
    /\ Saving("backup_open") \/ Saving("backup_part")
    /\ WriteFile(backup_file_of(call.current_tb_file), write_text(call.original_content))
    /\ GoTo("no_backup")
    /\ UNCHANGED <<config, runVars>>

\* line 980: open(temp_file, "w")
OpenTemp ==
    /\ Saving("no_backup")
    /\ WriteFile(temp_file_of(call.current_tb_file), Empty)
    /\ GoTo("temp_open")
    /\ UNCHANGED <<config, runVars>>

\* line 981: the editor text on its way into the temporary file
FlushTemp ==
    /\ Saving("temp_open")
    /\ WriteFile(temp_file_of(call.current_tb_file), Partial(write_text(call.text)))
    /\ GoTo("temp_part")
    /\ UNCHANGED <<config, runVars>>

\* lines 982-983: flush and fsync, the temporary file is complete
SyncTemp ==
    /\ Saving("temp_open") \/ Saving("temp_part")
    /\ WriteFile(temp_file_of(call.current_tb_file), write_text(call.text))
    /\ GoTo("temp_synced")
    /\ UNCHANGED <<config, runVars>>

\* line 984: os.replace(temp_file, target_file), in one step
ReplaceTarget ==
    /\ Saving("temp_synced")
    /\ LET temp_file == temp_file_of(call.current_tb_file)
       IN  /\ contents' = Drop(Put(contents, call.current_tb_file, contents[temp_file]),
                               temp_file)
           /\ files' = (files \ {temp_file}) \cup {call.current_tb_file}
    /\ GoTo("saved")
    /\ UNCHANGED <<dirs, links, config, runVars>>

SaveSteps ==
    { "read", "backup_open", "backup_part", "no_backup", "temp_open", "temp_part",
      "temp_synced" }

\* the process dies, or a write raises, in the middle of the save
Crash ==
    /\ call.op = "save_tb_file"
    /\ call.step \in SaveSteps
    /\ GoTo("crashed")
    /\ UNCHANGED <<fsVars, config, runVars>>

NextSave ==
    \/ SaveTbFile
    \/ OpenBackup
    \/ FlushBackup
    \/ CloseBackup
    \/ OpenTemp
    \/ FlushTemp
    \/ SyncTemp
    \/ ReplaceTarget
    \/ Crash

SpecSave == InitSave /\ [][NextSave]_vars

\* save_tb_file has started on a testbench file that existed
SaveStarted ==
    /\ call.op = "save_tb_file"
    /\ call.current_tb_file # NoPath
    /\ call.current_tb_file \in DOMAIN call.before

Holds(path, content) == path \in DOMAIN contents /\ contents[path] = content

\* C30: at every step of save_tb_file on an existing testbench file, and so
\* after a crash at any step, the testbench file exists and holds its complete
\* previous content or the complete editor text; once the save has completed
\* it holds the editor text and the .bak file holds the content the testbench
\* file had before the save
C30_AtomicSave ==
    SaveStarted =>
        /\ \/ Holds(call.current_tb_file, call.before[call.current_tb_file])
           \/ Holds(call.current_tb_file, write_text(call.text))
        /\ call.step = "saved" =>
             /\ Holds(call.current_tb_file, write_text(call.text))
             /\ Holds(backup_file_of(call.current_tb_file),
                      call.before[call.current_tb_file])
============================================================================
